---- MODULE Spec2Model ----
(***************************************************************************)
(* Model of the analytics core of the portal backend:                      *)
(*   hashing.py  - canonical ChartSpec hash and cache key                  *)
(*   cache.py    - LocalCacheBackend / SpecCache TTL store                 *)
(*   router.py   - TableRouter                                             *)
(*   engine.py   - AnalyticsEngine.execute and the normalisers             *)
(*   contracts.py, compiler.py - validators, SpecCompiler and its SQL      *)
(*   dashboard_catalogue.py - dashboard manifests, pin and remove          *)
(*                                                                         *)
(* Specifications:                                                         *)
(*   SpecHash  a caller edits a ChartSpec document and re-keys it          *)
(*   SpecCache get/set/clear on a SpecCache over a LocalCacheBackend       *)
(*   Spec      sequential AnalyticsEngine.execute calls on one engine      *)
(*   SpecConc  threads running execute concurrently on the same key        *)
(*   SpecQuery compile, warehouse query, normalise and validate, as pure   *)
(*             functions of a ChartSpec and the events of the table        *)
(*   SpecManifest pin and remove calls on the dashboard manifests          *)
(*   SpecParams   compile of ChartSpecs over growing filter trees          *)
(***************************************************************************)
EXTENDS Integers, Sequences, FiniteSets, TLC

VARIABLES
    hDoc,      \* SpecHash: the ChartSpec document the caller holds
    hKey,      \* SpecHash: build_cache_key of hDoc
    hPrev,     \* SpecHash: document and key before the last edit
    hOp,       \* SpecHash: kind of the last edit
    hEdits,    \* SpecHash: number of edits made so far
    hTable,    \* SpecHash: the routed table the key is built for
    store,     \* LocalCacheBackend._store: key -> _CacheEntry (keys present only)
    now,       \* time.monotonic(), in whole seconds
    ret,       \* SpecCache: what the last cache operation saw and returned
    phase,     \* SpecCache: per key, absent / present / gone (history)
    backend,   \* Spec: the CacheBackend the engine's SpecCache wraps
    ver,       \* the version of the warehouse data (changes as events arrive)
    jobs,      \* warehouse jobs started so far (the executor's call count)
    ncalls,    \* Spec: execute calls made so far
    last,      \* Spec: inputs and outcome of the last execute call (history)
    threads,   \* SpecConc: per thread, where its execute call stands and what it holds
    writes,    \* SpecConc: the cache writes in the order they happened (history)
    qEvents,   \* SpecQuery: the events of the routed warehouse table
    qSpec,     \* SpecQuery: the ChartSpec submitted to the pipeline
    qOut,      \* SpecQuery: what the pipeline made of qSpec over qEvents
    manifests, \* SpecManifest: InMemoryManifestRepository._store, org -> manifest
    mRet,      \* SpecManifest: the last manifest call and what it returned (history)
    pFilters,  \* SpecParams: the filter groups of the ChartSpec being written
    pOut       \* SpecParams: what compile made of the spec with these filters

hashVars == <<hDoc, hKey, hPrev, hOp, hEdits, hTable>>

cacheVars == <<store, now, ret, phase>>

engineVars == <<backend, ver, jobs, ncalls, last>>

concVars == <<threads, writes>>

queryVars == <<qEvents, qSpec, qOut>>

manifestVars == <<manifests, mRet>>

paramVars == <<pFilters, pOut>>

vars == <<hDoc, hKey, hPrev, hOp, hEdits, hTable, store, now, ret, phase,
          backend, ver, jobs, ncalls, last, threads, writes,
          qEvents, qSpec, qOut,
          manifests, mRet, pFilters, pOut>>

\* Edits a SpecHash behaviour applies to its document.
MaxEdits == 2

\* The monotonic clock is followed up to MaxTime seconds.
MaxTime == 2

\* Execute calls followed in one behaviour of Spec.
MaxCalls == 2

\* The warehouse data is followed through versions 0..MaxVer.
MaxVer == 1

\* SpecCache(backend, default_ttl=...): the default TTL the cache was constructed with.
default_ttl == 2

\* Optional values: None is <<>>, a present value x is <<x>>.
None == <<>>

Some(x) == <<x>>

Max(a, b) == IF a >= b THEN a ELSE b

(***************************************************************************)
(* JSON-like values.  A node is a record [kind, atom, kids]:               *)
(*   kind "dict": kids is the sequence of <<key, node>> members in         *)
(*                insertion order (a Python dict keeps insertion order);   *)
(*   kind "list": kids is the sequence of <<"", node>> items;              *)
(*   kind "str" / "num" / "bool" / "null": atom is the literal's text.     *)
(***************************************************************************)
JStr(s) == [kind |-> "str", atom |-> s, kids |-> <<>>]

JNum(s) == [kind |-> "num", atom |-> s, kids |-> <<>>]

JDict(members) == [kind |-> "dict", atom |-> "", kids |-> members]

JList(items) ==
    [kind |-> "list", atom |-> "", kids |-> [i \in 1..Len(items) |-> <<"", items[i]>>]]

\* Python's ordering of the str keys that occur in the documents (code-point order).
KeyOrder ==
    <<"aggregation", "bucket", "chartType", "column", "conditions", "dataset",
      "dimensions", "eventTypes", "export", "field", "filters", "from", "id",
      "interactions", "logic", "measures", "note", "op", "splits", "timeWindow",
      "timezone", "to", "value">>

KeyRank(k) == CHOOSE i \in 1..Len(KeyOrder) : KeyOrder[i] = k

RemoveAt(s, i) == [j \in 1..(Len(s) - 1) |-> IF j < i THEN s[j] ELSE s[j + 1]]

\* A sorted(obj) that returns the members in the order the dict holds them.
UnsortedMembers(members) == members

\* sorted(obj): the members of a dict in ascending key order.
RECURSIVE SortedMembers(_)
SortedMembers(members) ==
    IF members = <<>> THEN <<>>
    ELSE LET m == CHOOSE i \in 1..Len(members) :
                    \A j \in 1..Len(members) :
                        KeyRank(members[i][1]) <= KeyRank(members[j][1])
         IN  <<members[m]>> \o SortedMembers(RemoveAt(members, m))

\* A _normalize that also puts the items of every list in one canonical order.
CanonicalItems(items) ==
    CHOOSE s \in { [i \in 1..Len(items) |-> items[f[i]]] : f \in Permutations(1..Len(items)) } :
        TRUE

RECURSIVE _normalize_sorting_lists(_)
_normalize_sorting_lists(obj) ==
    IF obj.kind = "dict"
    THEN LET sorted == SortedMembers(obj.kids)
         IN  [obj EXCEPT !.kids =
                 [i \in 1..Len(sorted) |->
                     <<sorted[i][1], _normalize_sorting_lists(sorted[i][2])>>]]
    ELSE IF obj.kind = "list"
    THEN [obj EXCEPT !.kids = CanonicalItems(
             [i \in 1..Len(obj.kids) |-> <<"", _normalize_sorting_lists(obj.kids[i][2])>>])]
    ELSE obj

\* hashing._normalize: dict keys sorted recursively, list order kept.
RECURSIVE _normalize(_)
_normalize(obj) ==
    IF obj.kind = "dict"
    THEN LET sorted == SortedMembers(obj.kids)
         IN  [obj EXCEPT !.kids =
                 [i \in 1..Len(sorted) |-> <<sorted[i][1], _normalize(sorted[i][2])>>]]
    ELSE IF obj.kind = "list"
    THEN [obj EXCEPT !.kids =
             [i \in 1..Len(obj.kids) |-> <<"", _normalize(obj.kids[i][2])>>]]
    ELSE obj

\* json.dumps(obj, separators=(",", ":"), sort_keys=True) as a token sequence.
RECURSIVE json_dumps(_)
RECURSIVE DumpMembers(_, _)
DumpMembers(members, isDict) ==
    IF members = <<>> THEN <<>>
    ELSE (IF isDict THEN <<members[1][1], ":">> ELSE <<>>)
         \o json_dumps(members[1][2])
         \o (IF Len(members) > 1 THEN <<",">> ELSE <<>>)
         \o DumpMembers(Tail(members), isDict)

json_dumps(obj) ==
    IF obj.kind = "dict"
    THEN <<"{">> \o DumpMembers(SortedMembers(obj.kids), TRUE) \o <<"}">>
    ELSE IF obj.kind = "list"
    THEN <<"[">> \o DumpMembers(obj.kids, FALSE) \o <<"]">>
    ELSE <<obj.kind, obj.atom>>

\* hashlib.sha256(payload).hexdigest(): SHA-256 is taken as injective on payloads.
sha256(payload) == <<"sha256", payload>>

\* A hash_spec that serialises the dict as given (no key sorting).
RECURSIVE DumpUnsorted(_)
RECURSIVE DumpMembersUnsorted(_, _)
DumpMembersUnsorted(members, isDict) ==
    IF members = <<>> THEN <<>>
    ELSE (IF isDict THEN <<members[1][1], ":">> ELSE <<>>)
         \o DumpUnsorted(members[1][2])
         \o (IF Len(members) > 1 THEN <<",">> ELSE <<>>)
         \o DumpMembersUnsorted(Tail(members), isDict)

DumpUnsorted(obj) ==
    IF obj.kind = "dict"
    THEN <<"{">> \o DumpMembersUnsorted(obj.kids, TRUE) \o <<"}">>
    ELSE IF obj.kind = "list"
    THEN <<"[">> \o DumpMembersUnsorted(obj.kids, FALSE) \o <<"]">>
    ELSE <<obj.kind, obj.atom>>

hash_spec_unsorted(spec) == sha256(DumpUnsorted(spec))

\* hashing.hash_spec
hash_spec(spec) == sha256(json_dumps(_normalize(spec)))

\* A cache key made of the spec hash alone.
build_cache_key_untabled(spec, table_name) == <<<<>>, ":", hash_spec(spec)>>

\* hashing.build_cache_key: f"{table_name}:{spec_hash}"
build_cache_key(spec, table_name) == <<table_name, ":", hash_spec(spec)>>

(***************************************************************************)
(* ChartSpec documents.                                                    *)
(***************************************************************************)
Measure(id, aggregation) ==
    JDict(<< <<"id", JStr(id)>>, <<"aggregation", JStr(aggregation)>> >>)

Condition(field, op, value) ==
    JDict(<< <<"field", JStr(field)>>, <<"op", JStr(op)>>, <<"value", value>> >>)

FilterGroup(logic, conditions) ==
    JDict(<< <<"logic", JStr(logic)>>, <<"conditions", JList(conditions)>> >>)

TimeWindow(from, to, bucket) ==
    JDict(<< <<"from", JStr(from)>>, <<"to", JStr(to)>>, <<"bucket", JStr(bucket)>> >>)

Dimension(id, column) ==
    JDict(<< <<"id", JStr(id)>>, <<"column", JStr(column)>> >>)

ChartSpec(chartType, measures, bucket, filters) ==
    JDict(<< <<"dataset", JStr("events")>>,
             <<"chartType", JStr(chartType)>>,
             <<"measures", JList(measures)>>,
             <<"dimensions", JList(<<Dimension("time", "timestamp")>>)>>,
             <<"timeWindow", TimeWindow("2024-01-01T00:00:00Z", "2024-01-01T03:00:00Z", bucket)>>,
             <<"filters", JList(filters)>> >>)

\* The live-flow spec of the tests: occupancy + activity, one AND group of two conditions.
LiveFlow ==
    ChartSpec("composed_time",
              <<Measure("occupancy", "occupancy_recursion"), Measure("activity", "count")>>,
              "HOUR",
              <<FilterGroup("AND",
                    <<Condition("site_id", "equals", JStr("SITE_01")),
                      Condition("cam_id", "in", JList(<<JStr("CAM_1"), JStr("CAM_2")>>))>>)>>)

\* Table names are kept as their dot-separated parts.
Tables == {<<"proj", "ds", "client0">>, <<"proj", "ds", "client1">>}

(***************************************************************************)
(* Editing a document: paths are sequences of member indexes.              *)
(***************************************************************************)
RECURSIVE NodeAt(_, _)
NodeAt(doc, path) ==
    IF path = <<>> THEN doc ELSE NodeAt(doc.kids[Head(path)][2], Tail(path))

RECURSIVE ReplaceAt(_, _, _)
ReplaceAt(doc, path, new) ==
    IF path = <<>> THEN new
    ELSE [doc EXCEPT !.kids[Head(path)] =
             <<doc.kids[Head(path)][1], ReplaceAt(doc.kids[Head(path)][2], Tail(path), new)>>]

RECURSIVE Paths(_)
Paths(doc) ==
    {<<>>} \cup UNION { { <<i>> \o p : p \in Paths(doc.kids[i][2]) } : i \in 1..Len(doc.kids) }

\* The key of the nearest enclosing dict member of the node at path ("" at the top level).
RECURSIVE ContainerKey(_, _, _)
ContainerKey(doc, path, sofar) ==
    IF path = <<>> THEN sofar
    ELSE LET member == doc.kids[Head(path)]
         IN  ContainerKey(member[2], Tail(path), IF member[1] = "" THEN sofar ELSE member[1])

SwapKids(node, i) ==
    [node EXCEPT !.kids = [j \in 1..Len(node.kids) |->
        IF j = i THEN node.kids[i + 1] ELSE IF j = i + 1 THEN node.kids[i] ELSE node.kids[j]]]

HasKey(node, k) == \E i \in 1..Len(node.kids) : node.kids[i][1] = k

\* Places where a field that neither the validator nor the compiler reads may be added.
UnknownFieldPlaces == {"", "measures", "dimensions", "timeWindow"}

Edit(newDoc, op, at) ==
    /\ hEdits < MaxEdits
    /\ hDoc' = newDoc
    /\ hKey' = build_cache_key(newDoc, hTable)
    /\ hPrev' = [doc |-> hDoc, key |-> hKey]
    /\ hOp' = [op |-> op, at |-> at]
    /\ hEdits' = hEdits + 1
    /\ UNCHANGED <<hTable, cacheVars, engineVars, concVars, queryVars, manifestVars, paramVars>>

\* The caller rebuilds a mapping with two adjacent keys in the other order.
ReorderKeys ==
    \E p \in Paths(hDoc) :
        /\ NodeAt(hDoc, p).kind = "dict"
        /\ \E i \in 1..(Len(NodeAt(hDoc, p).kids) - 1) :
               Edit(ReplaceAt(hDoc, p, SwapKids(NodeAt(hDoc, p), i)),
                    "reorder_keys", ContainerKey(hDoc, p, ""))

\* The caller swaps two adjacent items of a list (measures, conditions, in-values).
ReorderItems ==
    \E p \in Paths(hDoc) :
        /\ NodeAt(hDoc, p).kind = "list"
        /\ \E i \in 1..(Len(NodeAt(hDoc, p).kids) - 1) :
               Edit(ReplaceAt(hDoc, p, SwapKids(NodeAt(hDoc, p), i)),
                    "reorder_items", ContainerKey(hDoc, p, ""))

\* The caller adds a field that the validator ignores.
AddUnknownField ==
    \E p \in Paths(hDoc) :
        /\ NodeAt(hDoc, p).kind = "dict"
        /\ ContainerKey(hDoc, p, "") \in UnknownFieldPlaces
        /\ ~HasKey(NodeAt(hDoc, p), "note")
        /\ Edit(ReplaceAt(hDoc, p,
                    [NodeAt(hDoc, p) EXCEPT !.kids = Append(@, <<"note", JStr("x")>>)]),
                "add_unknown_field", ContainerKey(hDoc, p, ""))

HashIdle ==
    /\ hDoc = None /\ hKey = None /\ hPrev = None /\ hOp = None /\ hEdits = 0 /\ hTable = None

CacheIdle ==
    /\ store = <<>> /\ now = 0 /\ ret = None /\ phase = None

EngineIdle ==
    /\ backend = None /\ ver = 0 /\ jobs = 0 /\ ncalls = 0 /\ last = None

ConcIdle ==
    /\ threads = None /\ writes = <<>>

QueryIdle ==
    /\ qEvents = None /\ qSpec = None /\ qOut = None

ManifestIdle ==
    /\ manifests = None /\ mRet = None

ParamIdle ==
    /\ pFilters = None /\ pOut = None

HashInit ==
    /\ QueryIdle /\ ManifestIdle /\ ParamIdle
    /\ CacheIdle
    /\ EngineIdle
    /\ ConcIdle
    /\ hDoc = LiveFlow
    /\ hTable \in Tables
    /\ hKey = build_cache_key(hDoc, hTable)
    /\ hPrev = [doc |-> hDoc, key |-> hKey]
    /\ hOp = [op |-> "none", at |-> ""]
    /\ hEdits = 0

HashNext == ReorderKeys \/ ReorderItems \/ AddUnknownField

SpecHash == HashInit /\ [][HashNext]_vars

\* C3: two specs that differ only in the order of `measures`, or only in the order of
\* the entries of a filter group's `conditions`, get different cache keys for the
\* same table (SHA-256 taken as injective).
ListOrderIsSemantic ==
    (hOp.op = "reorder_items" /\ hOp.at \in {"measures", "conditions"})
        => hKey # hPrev.key

\* A spec whose measures were swapped, with its key next to the key before the swap.
MeasuresReordered ==
    /\ hOp.op = "reorder_items" /\ hOp.at = "measures"
    /\ hDoc # hPrev.doc
    /\ hKey[1] = hPrev.key[1] /\ hKey[3] # hPrev.key[3]

\* C4 as stated: re-ordering the entries of a filter group's `conditions` list
\* produces the same cache key for the same table.
ConditionOrderIgnored ==
    (hOp.op = "reorder_items" /\ hOp.at = "conditions") => hKey = hPrev.key

\* C4, amended: re-ordering the keys inside a filter condition keeps the cache key,
\* re-ordering the conditions of a filter group changes it.
ConditionKeysNotConditionOrder ==
    /\ (hOp.op = "reorder_keys" /\ hOp.at = "conditions") => hKey = hPrev.key
    /\ (hOp.op = "reorder_items" /\ hOp.at = "conditions") => hKey # hPrev.key

\* A filter group whose two conditions were swapped: same table, another digest.
ConditionsReordered ==
    /\ hOp.op = "reorder_items" /\ hOp.at = "conditions"
    /\ hEdits = 1
    /\ hKey[1] = hPrev.key[1] /\ hKey # hPrev.key

\* C5: adding a field the validator ignores (top level, measure, dimension,
\* timeWindow) leaves the cache key unchanged.
UnknownFieldsIgnored ==
    hOp.op = "add_unknown_field" => hKey = hPrev.key

(***************************************************************************)
(* contracts.py: validate_chart_spec.                                      *)
(***************************************************************************)
\* dict.get(key): Some(value) or None.
Get(node, k) ==
    IF node.kind = "dict" /\ HasKey(node, k)
    THEN Some(node.kids[CHOOSE i \in 1..Len(node.kids) : node.kids[i][1] = k][2])
    ELSE None

Items(node) == [i \in 1..Len(node.kids) |-> node.kids[i][2]]

IsStr(o) == o # None /\ o[1].kind = "str"

IsList(o) == o # None /\ o[1].kind = "list"

IsDict(o) == o # None /\ o[1].kind = "dict"

\* Python truthiness of an optional JSON value.
Truthy(o) ==
    /\ o # None
    /\ CASE o[1].kind \in {"dict", "list"} -> o[1].kids # <<>>
         [] o[1].kind = "str" -> o[1].atom # ""
         [] o[1].kind = "num" -> o[1].atom \notin {"0", "0.0"}
         [] o[1].kind = "bool" -> o[1].atom = "true"
         [] OTHER -> FALSE

\* x in S for a closed set of strings.
InEnum(o, S) == IsStr(o) /\ o[1].atom \in S

\* None or a member of S (the "if bucket is not None" checks).
NoneOrEnum(o, S) == o = None \/ o[1].kind = "null" \/ InEnum(o, S)

CHART_TYPES == {"composed_time", "categorical", "heatmap", "retention", "single_value"}

TIME_BUCKETS == {"RAW", "5_MIN", "15_MIN", "30_MIN", "HOUR", "DAY", "WEEK", "MONTH"}

MEASURE_AGGREGATIONS ==
    {"occupancy_recursion", "count", "activity_rate", "dwell_mean", "dwell_p90",
     "sessions", "demographic_count", "retention_rate"}

FILTER_OPERATORS ==
    {"equals", "not_equals", "in", "not_in", "between", "gte", "lte", "gt", "lt",
     "contains", "starts_with", "ends_with"}

INTERACTION_EXPORTS == {"png", "csv", "xlsx"}

\* contracts._validate_filter_condition
_validate_filter_condition(condition) ==
    /\ condition.kind = "dict"
    /\ IsStr(Get(condition, "field"))
    /\ InEnum(Get(condition, "op"), FILTER_OPERATORS)
    /\ LET value == Get(condition, "value")
       IN  value # None =>
             /\ value[1].kind \in {"str", "num", "bool", "list"}
             /\ value[1].kind = "list" =>
                    \A i \in 1..Len(value[1].kids) :
                        value[1].kids[i][2].kind \in {"str", "num", "bool"}

\* contracts._validate_filter_group
RECURSIVE _validate_filter_group(_)
_validate_filter_group(group) ==
    /\ group.kind = "dict"
    /\ InEnum(Get(group, "logic"), {"AND", "OR"})
    /\ LET conditions == Get(group, "conditions")
       IN  /\ IsList(conditions) /\ Truthy(conditions)
           /\ \A i \in 1..Len(conditions[1].kids) :
                  LET condition == conditions[1].kids[i][2]
                  IN  IF condition.kind = "dict" /\ HasKey(condition, "logic")
                      THEN _validate_filter_group(condition)
                      ELSE _validate_filter_condition(condition)

ValidMeasure(measure) ==
    /\ measure.kind = "dict"
    /\ IsStr(Get(measure, "id")) /\ Truthy(Get(measure, "id"))
    /\ InEnum(Get(measure, "aggregation"), MEASURE_AGGREGATIONS)
    /\ HasKey(measure, "eventTypes") =>
          /\ IsList(Get(measure, "eventTypes"))
          /\ \A i \in 1..Len(Get(measure, "eventTypes")[1].kids) :
                 LET ev == Get(measure, "eventTypes")[1].kids[i][2]
                 IN  \/ ev.kind = "num" /\ ev.atom \in {"0", "1", "0.0", "1.0"}
                     \/ ev.kind = "bool"

ValidDimension(dimension) ==
    /\ dimension.kind = "dict"
    /\ IsStr(Get(dimension, "id"))
    /\ IsStr(Get(dimension, "column"))
    /\ NoneOrEnum(Get(dimension, "bucket"), TIME_BUCKETS)

ValidSplit(split) ==
    /\ split.kind = "dict"
    /\ IsStr(Get(split, "id"))
    /\ IsStr(Get(split, "column"))

ValidInteractions(interactions) ==
    Truthy(interactions) =>
        /\ IsDict(interactions)
        /\ LET exports == Get(interactions[1], "export")
           IN  (exports # None /\ exports[1].kind # "null") =>
                  /\ IsList(exports)
                  /\ \A i \in 1..Len(exports[1].kids) :
                         InEnum(Some(exports[1].kids[i][2]), INTERACTION_EXPORTS)

\* contracts.validate_chart_spec: TRUE when no ValidationError is raised.
validate_chart_spec(payload) ==
    /\ payload.kind = "dict"
    /\ Get(payload, "dataset") = Some(JStr("events"))
    /\ InEnum(Get(payload, "chartType"), CHART_TYPES)
    /\ IsList(Get(payload, "measures")) /\ Truthy(Get(payload, "measures"))
    /\ \A i \in 1..Len(Get(payload, "measures")[1].kids) :
           ValidMeasure(Get(payload, "measures")[1].kids[i][2])
    /\ IsList(Get(payload, "dimensions")) /\ Truthy(Get(payload, "dimensions"))
    /\ \A i \in 1..Len(Get(payload, "dimensions")[1].kids) :
           ValidDimension(Get(payload, "dimensions")[1].kids[i][2])
    /\ Truthy(Get(payload, "splits")) =>
           /\ IsList(Get(payload, "splits"))
           /\ \A i \in 1..Len(Get(payload, "splits")[1].kids) :
                  ValidSplit(Get(payload, "splits")[1].kids[i][2])
    /\ Truthy(Get(payload, "filters")) =>
           /\ IsList(Get(payload, "filters"))
           /\ \A i \in 1..Len(Get(payload, "filters")[1].kids) :
                  _validate_filter_group(Get(payload, "filters")[1].kids[i][2])
    /\ IsDict(Get(payload, "timeWindow"))
    /\ IsStr(Get(Get(payload, "timeWindow")[1], "from"))
    /\ IsStr(Get(Get(payload, "timeWindow")[1], "to"))
    /\ NoneOrEnum(Get(Get(payload, "timeWindow")[1], "bucket"), TIME_BUCKETS)
    /\ ValidInteractions(Get(payload, "interactions"))

(***************************************************************************)
(* compiler.py: SpecCompiler.compile, as far as its outcome and the        *)
(* meaning of the query it emits: which table, window, bucket, filters     *)
(* and measures the SQL reads.  Mapping-key order and unread fields do     *)
(* not reach the CompiledQuery.                                            *)
(***************************************************************************)
TimeSeriesMeasures ==
    {"occupancy_recursion", "count", "activity_rate", "dwell_mean", "dwell_p90", "sessions"}

RetentionMeasures == {"retention_rate"}

SupportedCharts == {"composed_time", "categorical", "single_value", "heatmap", "retention"}

\* dict.get(key, default) of a string-valued field; a non-string value reads as "<other>".
GetAtom(node, k, default) ==
    LET o == Get(node, k)
    IN  IF o = None THEN default ELSE IF o[1].kind = "str" THEN o[1].atom ELSE "<other>"

\* SpecCompiler._compile_condition raises ValidationError only on a malformed between.
ConditionCompiles(condition) ==
    Get(condition, "op")[1].atom = "between" =>
        /\ IsList(Get(condition, "value"))
        /\ Len(Get(condition, "value")[1].kids) = 2

\* SpecCompiler._compile_group: whether it returns, and the predicate it emits.
RECURSIVE GroupCompiles(_)
GroupCompiles(group) ==
    LET conditions == Get(group, "conditions")[1].kids
    IN  \A i \in 1..Len(conditions) :
            IF HasKey(conditions[i][2], "logic")
            THEN GroupCompiles(conditions[i][2])
            ELSE ConditionCompiles(conditions[i][2])

RECURSIVE GroupPredicate(_)
GroupPredicate(group) ==
    LET conditions == Get(group, "conditions")[1].kids
    IN  [leaf |-> FALSE, name |-> GetAtom(group, "logic", "AND"), op |-> "",
         value |-> None,
         conds |-> [i \in 1..Len(conditions) |->
                      IF HasKey(conditions[i][2], "logic")
                      THEN GroupPredicate(conditions[i][2])
                      ELSE [leaf |-> TRUE,
                            name |-> Get(conditions[i][2], "field")[1].atom,
                            op |-> Get(conditions[i][2], "op")[1].atom,
                            value |-> Get(conditions[i][2], "value"),
                            conds |-> <<>>]]]

\* spec.get("filters", []) as a sequence of groups.
FilterGroups(spec) ==
    IF Truthy(Get(spec, "filters")) THEN Items(Get(spec, "filters")[1]) ELSE <<>>

\* SpecCompiler._build_filters
FiltersCompile(spec) ==
    \A i \in 1..Len(FilterGroups(spec)) : GroupCompiles(FilterGroups(spec)[i])

FiltersPredicate(spec) ==
    [i \in 1..Len(FilterGroups(spec)) |-> GroupPredicate(FilterGroups(spec)[i])]

Measures(spec) == Items(Get(spec, "measures")[1])

MeasureId(m) == Get(m, "id")[1].atom

MeasureAgg(m) == Get(m, "aggregation")[1].atom

RECURSIVE Ascending(_)
Ascending(S) ==
    IF S = {} THEN <<>>
    ELSE LET m == CHOOSE x \in S : \A y \in S : x <= y
         IN  <<m>> \o Ascending(S \ {m})

\* measure_map = {measure["id"]: measure["aggregation"] for measure in measures}:
\* one entry per id, in first-insertion order, holding the last aggregation.
measure_map(ms) ==
    LET first == Ascending({i \in 1..Len(ms) :
                               \A j \in 1..(i - 1) : MeasureId(ms[j]) # MeasureId(ms[i])})
        lastOf(id) == CHOOSE i \in 1..Len(ms) :
                         /\ MeasureId(ms[i]) = id
                         /\ \A j \in (i + 1)..Len(ms) : MeasureId(ms[j]) # id
    IN  [n \in 1..Len(first) |->
            [id |-> MeasureId(ms[first[n]]),
             aggregation |-> MeasureAgg(ms[lastOf(MeasureId(ms[first[n]]))])]]

\* The first error the per-measure loop of compile raises ("" when none).
RECURSIVE MeasureLoopError(_, _, _)
MeasureLoopError(ms, renderers, bucket) ==
    IF ms = <<>> THEN ""
    ELSE IF MeasureAgg(Head(ms)) \notin renderers THEN "UnsupportedMeasureError"
    ELSE IF bucket = "RAW" THEN "ValidationError"
    ELSE MeasureLoopError(Tail(ms), renderers, bucket)

CompiledQuery(spec, table_name, shape, bucket) ==
    [table |-> table_name,
     shape |-> shape,
     bucket |-> bucket,
     start_ts |-> Get(Get(spec, "timeWindow")[1], "from")[1].atom,
     end_ts |-> Get(Get(spec, "timeWindow")[1], "to")[1].atom,
     filters |-> FiltersPredicate(spec),
     reads |-> [i \in 1..Len(Measures(spec)) |->
                  [id |-> MeasureId(Measures(spec)[i]),
                   aggregation |-> MeasureAgg(Measures(spec)[i]),
                   eventTypes |-> Get(Measures(spec)[i], "eventTypes")]],
     measures |-> measure_map(Measures(spec))]

Raised(kind) == [error |-> kind, query |-> None]

\* SpecCompiler._compile_retention_chart
_compile_retention_chart(spec, table_name) ==
    LET bucket == GetAtom(Get(spec, "timeWindow")[1], "bucket", "WEEK")
    IN  IF bucket \notin {"WEEK", "MONTH"} THEN Raised("ValidationError")
        ELSE IF ~FiltersCompile(spec) THEN Raised("ValidationError")
        ELSE IF MeasureLoopError(Measures(spec), RetentionMeasures, bucket) # ""
        THEN Raised(MeasureLoopError(Measures(spec), RetentionMeasures, bucket))
        ELSE [error |-> "", query |-> Some(CompiledQuery(spec, table_name, "retention", bucket))]

\* SpecCompiler.compile
compile(spec, table_name) ==
    IF ~validate_chart_spec(spec) THEN Raised("ValidationError")
    ELSE IF Get(spec, "chartType")[1].atom \notin SupportedCharts
    THEN Raised("UnsupportedChartError")
    ELSE IF Get(spec, "chartType")[1].atom \in {"heatmap", "retention"}
    THEN _compile_retention_chart(spec, table_name)
    ELSE LET bucket == GetAtom(Get(spec, "timeWindow")[1], "bucket", "RAW")
         IN  IF bucket \notin TIME_BUCKETS THEN Raised("ValidationError")
             ELSE IF ~FiltersCompile(spec) THEN Raised("ValidationError")
             ELSE IF MeasureLoopError(Measures(spec), TimeSeriesMeasures, bucket) # ""
             THEN Raised(MeasureLoopError(Measures(spec), TimeSeriesMeasures, bucket))
             ELSE [error |-> "",
                   query |-> Some(CompiledQuery(spec, table_name, "time_series", bucket))]

(***************************************************************************)
(* engine.py: the normaliser and validate_chart_result.                    *)
(***************************************************************************)
_GEOMETRY_MAP(aggregation, default) ==
    CASE aggregation = "occupancy_recursion" -> "area"
      [] aggregation \in {"count", "sessions"} -> "column"
      [] aggregation \in {"activity_rate", "dwell_mean", "dwell_p90"} -> "line"
      [] aggregation = "retention_rate" -> "heatmap"
      [] OTHER -> default

_AXIS_MAP(aggregation) ==
    CASE aggregation \in {"occupancy_recursion", "dwell_mean", "dwell_p90"} -> Some("Y1")
      [] aggregation \in {"count", "activity_rate", "sessions"} -> Some("Y2")
      [] OTHER -> None

XDimension(spec, compiled, type) ==
    LET dimension == Get(spec, "dimensions")[1].kids[1][2]
    IN  [id |-> Get(dimension, "id")[1].atom,
         type |-> type,
         bucket |-> IF HasKey(dimension, "bucket")
                    THEN GetAtom(dimension, "bucket", "")
                    ELSE IF compiled.bucket # "RAW" THEN compiled.bucket ELSE "None"]

Timezone(spec) ==
    IF HasKey(Get(spec, "timeWindow")[1], "timezone")
    THEN Get(Get(spec, "timeWindow")[1], "timezone")[1]
    ELSE JStr("UTC")

\* AnalyticsEngine._normalise_time_series
_normalise_time_series(spec, compiled, frame) ==
    LET dimension == Get(spec, "dimensions")[1].kids[1][2]
    IN  [chartType |-> "composed_time",
         xDimension |-> XDimension(spec, compiled,
                            IF Truthy(Get(dimension, "bucket"))
                               \/ Get(dimension, "column")[1].atom = "timestamp"
                            THEN "time" ELSE "category"),
         series |-> [i \in 1..Len(compiled.measures) |->
                       [id |-> compiled.measures[i].id,
                        geometry |-> _GEOMETRY_MAP(compiled.measures[i].aggregation, "line"),
                        axis |-> _AXIS_MAP(compiled.measures[i].aggregation)]],
         timezone |-> Timezone(spec),
         rows |-> frame]

\* AnalyticsEngine._normalise_heatmap
_normalise_heatmap(spec, compiled, frame) ==
    [chartType |-> "heatmap",
     xDimension |-> XDimension(spec, compiled, "matrix"),
     series |-> [i \in 1..Len(compiled.measures) |->
                   [id |-> compiled.measures[i].id,
                    geometry |-> _GEOMETRY_MAP(compiled.measures[i].aggregation, "heatmap"),
                    axis |-> None]],
     timezone |-> Timezone(spec),
     rows |-> frame]

\* AnalyticsEngine._normalise: the result, or None when UnsupportedChartExecution is raised.
_normalise(spec, compiled, frame) ==
    LET chart_type == Get(spec, "chartType")[1].atom
    IN  IF chart_type = "composed_time" THEN Some(_normalise_time_series(spec, compiled, frame))
        ELSE IF chart_type \in {"heatmap", "retention"}
        THEN Some(_normalise_heatmap(spec, compiled, frame))
        ELSE None

GEOMETRIES == {"line", "area", "column", "bar", "heatmap", "scatter", "metric"}

AXES == {"Y1", "Y2", "Y3"}

\* contracts.validate_chart_result on a normalised result whose rows are well formed.
validate_chart_result(payload) ==
    /\ payload.chartType \in CHART_TYPES
    /\ payload.xDimension.type \in {"time", "category", "matrix", "index"}
    /\ payload.series # <<>>
    /\ \A i \in 1..Len(payload.series) :
           /\ payload.series[i].geometry \in GEOMETRIES
           /\ payload.series[i].axis # None => payload.series[i].axis[1] \in AXES
    /\ payload.timezone.kind = "str"

(***************************************************************************)
(* cache.py: _CacheEntry, LocalCacheBackend, SpecCache.                    *)
(* An entry also remembers, as history, when it was set and the ttl        *)
(* argument SpecCache.set was called with (set_at, ttl_arg).               *)
(***************************************************************************)
\* An expiry test that lets the entry live through its last second.
expired_late(entry, t) == entry.expires_at # None /\ t > entry.expires_at[1]

\* An expiry test that is one second early.
expired_eager(entry, t) == entry.expires_at # None /\ t + 1 >= entry.expires_at[1]

\* _CacheEntry.expired
expired(entry, t) == entry.expires_at # None /\ t >= entry.expires_at[1]

Drop(st, key) == [k \in (DOMAIN st) \ {key} |-> st[k]]

\* LocalCacheBackend.get: the value (or None) and the store afterwards.
LocalCacheBackend_get(st, key, t) ==
    IF key \notin DOMAIN st THEN [value |-> None, store |-> st]
    ELSE IF expired(st[key], t) THEN [value |-> None, store |-> Drop(st, key)]
    ELSE [value |-> Some(st[key].value), store |-> st]

\* LocalCacheBackend.set line 50: the expiry instant, from the clock read at t.
ExpiresAt(ttl, t) == IF ttl = None THEN None ELSE Some(t + Max(ttl[1], 0))

\* A store assignment that keeps an entry that is already there.
StoreEntryIfAbsent(st, key, value, expires_at, set_at, ttl_arg) ==
    IF key \in DOMAIN st THEN st
    ELSE (key :> [value |-> value, expires_at |-> expires_at,
                  set_at |-> set_at, ttl_arg |-> ttl_arg]) @@ st

\* LocalCacheBackend.set lines 51-52: self._store[key] = _CacheEntry(value, expires_at).
\* set_at and ttl_arg record when and with which ttl argument the entry was written.
StoreEntry(st, key, value, expires_at, set_at, ttl_arg) ==
    (key :> [value |-> value, expires_at |-> expires_at,
             set_at |-> set_at, ttl_arg |-> ttl_arg]) @@ st

\* LocalCacheBackend.set
LocalCacheBackend_set(st, key, value, ttl, t, ttl_arg) ==
    StoreEntry(st, key, value, ExpiresAt(ttl, t), t, ttl_arg)

\* A SpecCache.set that hands the caller's ttl to the backend as it is.
SpecCache_set_no_default(st, key, value, ttl, t) ==
    LocalCacheBackend_set(st, key, value, ttl, t, ttl)

\* SpecCache.set line 87
effective_ttl(ttl) == IF ttl # None THEN ttl[1] ELSE default_ttl

\* SpecCache.set
SpecCache_set(st, key, value, ttl, t) ==
    LocalCacheBackend_set(st, key, value, Some(effective_ttl(ttl)), t, ttl)

\* SpecCache.get
SpecCache_get(st, key, t) == LocalCacheBackend_get(st, key, t)

\* LocalCacheBackend.clear / SpecCache.clear
LocalCacheBackend_clear(st) == <<>>

(***************************************************************************)
(* SpecCache: a client of one SpecCache(LocalCacheBackend()).              *)
(***************************************************************************)
CKeys == {"k1", "k2"}

CValues == {"v1", "v2"}

TtlArgs == {None, Some(-1), Some(0), Some(1)}

SeenAt(st, key) == IF key \in DOMAIN st THEN Some(st[key]) ELSE None

CGet(k) ==
    LET r == SpecCache_get(store, k, now)
    IN  /\ store' = r.store
        /\ ret' = [op |-> "get", key |-> k, out |-> r.value,
                   seen |-> SeenAt(store, k), at |-> now, was |-> phase[k]]
        /\ phase' = [phase EXCEPT ![k] =
                        IF r.value = None /\ @ = "present" THEN "gone" ELSE @]
        /\ UNCHANGED <<now, hashVars, engineVars, concVars, queryVars, manifestVars, paramVars>>

CSet(k, v, ttl) ==
    /\ store' = SpecCache_set(store, k, v, ttl, now)
    /\ ret' = [op |-> "set", key |-> k, out |-> None,
               seen |-> SeenAt(store, k), at |-> now, was |-> phase[k]]
    /\ phase' = [phase EXCEPT ![k] = "present"]
    /\ UNCHANGED <<now, hashVars, engineVars, concVars, queryVars, manifestVars, paramVars>>

CClear ==
    /\ store' = LocalCacheBackend_clear(store)
    /\ ret' = [op |-> "clear", key |-> "", out |-> None,
               seen |-> None, at |-> now, was |-> ""]
    /\ phase' = [k \in CKeys |-> IF phase[k] = "present" THEN "gone" ELSE phase[k]]
    /\ UNCHANGED <<now, hashVars, engineVars, concVars, queryVars, manifestVars, paramVars>>

Tick ==
    /\ now < MaxTime
    /\ now' = now + 1
    /\ UNCHANGED <<store, ret, phase, hashVars, engineVars, concVars, queryVars, manifestVars, paramVars>>

CacheInit ==
    /\ QueryIdle /\ ManifestIdle /\ ParamIdle
    /\ HashIdle
    /\ ConcIdle
    /\ EngineIdle
    /\ store = <<>>
    /\ now = 0
    /\ ret = [op |-> "init", key |-> "", out |-> None, seen |-> None, at |-> 0, was |-> ""]
    /\ phase = [k \in CKeys |-> "absent"]

CacheNext ==
    \/ \E k \in CKeys : CGet(k)
    \/ \E k \in CKeys, v \in CValues, ttl \in TtlArgs : CSet(k, v, ttl)
    \/ CClear
    \/ Tick

SpecCache == CacheInit /\ [][CacheNext]_vars

\* The entry a get found in the store, and the instant its effective TTL runs out.
Found == ret.seen[1]

\* C8: set(key, value, ttl=None) stores the value under the default TTL, so every
\* get returns it before set time + default_ttl and none from then on; the value of a
\* set(key, value, ttl=0) is returned by no get.
TtlArgumentSemantics ==
    (ret.op = "get" /\ ret.seen # None) =>
        /\ Found.ttl_arg = None =>
              /\ Found.expires_at # None
              /\ (ret.out = Some(Found.value)) <=> (ret.at < Found.set_at + default_ttl)
              /\ ret.out = None <=> (ret.at >= Found.set_at + default_ttl)
        /\ Found.ttl_arg = Some(0) => ret.out = None

\* A get that finds an entry written with ttl=None exactly default_ttl later: a miss.
DefaultTtlRanOut ==
    /\ ret.op = "get" /\ ret.seen # None
    /\ Found.ttl_arg = None
    /\ ret.at = Found.set_at + default_ttl
    /\ ret.out = None

\* C9: an entry set at time t with TTL T > 0 is returned by every get before t + T and
\* by none from t + T on, and such a get drops the entry; a key that is absent, or
\* was found expired or cleared, is a miss until the next set.
ExpiryAtReadTime ==
    ret.op = "get" =>
        /\ (ret.seen # None /\ effective_ttl(Found.ttl_arg) > 0) =>
              /\ ret.at < Found.set_at + effective_ttl(Found.ttl_arg)
                    => (ret.out = Some(Found.value) /\ store[ret.key] = Found)
              /\ ret.at >= Found.set_at + effective_ttl(Found.ttl_arg)
                    => (ret.out = None /\ ret.key \notin DOMAIN store)
        /\ ret.seen = None => (ret.out = None /\ ret.key \notin DOMAIN store)
        /\ ret.was \in {"absent", "gone"} => (ret.seen = None /\ ret.out = None)
        /\ ret.out = None => phase[ret.key] \in {"absent", "gone"}
        /\ ret.out # None => (ret.was = "present" /\ phase[ret.key] = "present")

\* A get one second after a set with ttl=1: the entry is found expired and dropped.
ExpiredEntryDropped ==
    /\ ret.op = "get" /\ ret.seen # None
    /\ Found.ttl_arg = Some(1)
    /\ ret.at = Found.set_at + 1
    /\ ret.out = None
    /\ ret.key \notin DOMAIN store
    /\ phase[ret.key] = "gone"

(***************************************************************************)
(* router.py: TableRouter.                                                 *)
(***************************************************************************)
\* The mapping the router was constructed with; "legacy" maps to a two-part name.
RouterMapping ==
    [org \in {"client0", "client1", "legacy"} |->
        CASE org = "client0" -> <<"proj", "ds", "client0">>
          [] org = "client1" -> <<"proj", "ds", "client1">>
          [] OTHER -> <<"ds", "table">>]

Orgs == {"client0", "client1", "legacy", "nobody"}

\* table_name.count(".")
DotCount(table_name) == Len(table_name) - 1

\* resolve with the dot test weakened to "at least two dots".
resolve_lenient(mapping, organisation) ==
    IF organisation \notin DOMAIN mapping
    THEN [error |-> "UnknownOrganisationError", table |-> None]
    ELSE IF DotCount(mapping[organisation]) < 2
    THEN [error |-> "ValueError", table |-> None]
    ELSE [error |-> "", table |-> Some(mapping[organisation])]

\* TableRouter.resolve of a router constructed with mapping
resolve(mapping, organisation) ==
    IF organisation \notin DOMAIN mapping
    THEN [error |-> "UnknownOrganisationError", table |-> None]
    ELSE IF DotCount(mapping[organisation]) # 2
    THEN [error |-> "ValueError", table |-> None]
    ELSE [error |-> "", table |-> Some(mapping[organisation])]

\* self.table_router.resolve of the engine's router
TableRouter_resolve(organisation) == resolve(RouterMapping, organisation)

(***************************************************************************)
(* bigquery_client.py: BigQueryClient.query_dataframe.                     *)
(* `how` is what the warehouse does with this job: "ok", "submit_fails"    *)
(* (self.query raises before the try block) or "result_fails" (job.result  *)
(* or to_dataframe raises inside it).  The frame stands for the rows the   *)
(* query yields on the current data.                                       *)
(***************************************************************************)
WarehouseOutcomes == {"ok", "submit_fails", "result_fails"}

query_dataframe(compiled, how, data, job) ==
    CASE how = "submit_fails" ->
            [error |-> "Exception", job_id |-> None, frame |-> None]
      [] how = "result_fails" ->
            [error |-> "BigQueryDataFrameError", job_id |-> Some(job), frame |-> None]
      [] OTHER ->
            [error |-> "", job_id |-> Some(job),
             frame |-> Some([query |-> compiled, data |-> data])]

\* A byte-different copy of a document: every mapping's keys in the opposite order.
RECURSIVE ReverseKeys(_)
ReverseKeys(doc) ==
    IF doc.kind \in {"dict", "list"}
    THEN [doc EXCEPT !.kids = [i \in 1..Len(doc.kids) |->
             LET j == IF doc.kind = "dict" THEN Len(doc.kids) + 1 - i ELSE i
             IN  <<doc.kids[j][1], ReverseKeys(doc.kids[j][2])>>]]
    ELSE doc

\* A KPI tile of the dashboard catalogue: one measure as one headline number.
Headline == ChartSpec("single_value", <<Measure("activity_total", "count")>>, "HOUR", <<>>)

\* The specs callers submit.
EngineSpecs == {LiveFlow, ReverseKeys(LiveFlow), Headline}

\* build_cache_key and compile are pure: their values for the specs and tables of
\* this specification, computed once.
CacheKeyOf == [spec \in EngineSpecs |-> [t \in Tables |-> build_cache_key(spec, t)]]

CompiledOf == [spec \in EngineSpecs |-> [t \in Tables |-> compile(spec, t)]]


(***************************************************************************)
(* engine.py: AnalyticsEngine.execute.                                     *)
(***************************************************************************)
\* What one execute call did: the error raised ("" when it returned), the result,
\* whether it was served from the cache, warehouse executions, the store afterwards.
Outcome(error, result, hit, execs, st, key, job_id, raised_by_cache) ==
    [error |-> error, result |-> result, hit |-> hit, execs |-> execs, store |-> st,
     key |-> key, job_id |-> job_id, raised_by_cache |-> raised_by_cache]

\* execute from the warehouse call on (engine.py lines 115-135).
RunQuery(st, t, data, job, spec, cache_key, compiled, cache_ttl, how, setRaises) ==
    LET answer == query_dataframe(compiled, how, data, job)
        result == _normalise(spec, compiled, answer.frame[1])
    IN  IF answer.error # ""
        THEN Outcome(answer.error, None, FALSE, 1, st, Some(cache_key), answer.job_id, "")
        ELSE IF result = None
        THEN Outcome("UnsupportedChartExecution", None, FALSE, 1, st, Some(cache_key),
                     answer.job_id, "")
        ELSE IF ~validate_chart_result(result[1])
        THEN Outcome("ValidationError", None, FALSE, 1, st, Some(cache_key),
                     answer.job_id, "")
        ELSE IF setRaises
        THEN Outcome("CacheError", None, FALSE, 1, st, Some(cache_key), answer.job_id, "set")
        ELSE Outcome("", result, FALSE, 1,
                     SpecCache_set(st, cache_key, result[1], cache_ttl, t),
                     Some(cache_key), answer.job_id, "")

\* A lookup that reads the cache whatever bypass_cache says.
cache_lookup_always(st, cache_key, t, bypass_cache) == SpecCache_get(st, cache_key, t)

\* execute lines 108-111: the cache is read only when bypass_cache is false.
cache_lookup(st, cache_key, t, bypass_cache) ==
    IF bypass_cache THEN [value |-> None, store |-> st] ELSE SpecCache_get(st, cache_key, t)

\* AnalyticsEngine.execute
execute(st, t, data, job, spec, organisation, bypass_cache, cache_ttl, how, getRaises, setRaises) ==
    LET routed == TableRouter_resolve(organisation)
        cache_key == CacheKeyOf[spec][routed.table[1]]
        looked == cache_lookup(st, cache_key, t, bypass_cache)
        compiled == CompiledOf[spec][routed.table[1]]
    IN  IF routed.error # ""
        THEN Outcome(routed.error, None, FALSE, 0, st, None, None, "")
        ELSE IF ~bypass_cache /\ getRaises
        THEN Outcome("CacheError", None, FALSE, 0, st, Some(cache_key), None, "get")
        ELSE IF looked.value # None
        THEN Outcome("", looked.value, TRUE, 0, looked.store, Some(cache_key), None, "")
        ELSE IF compiled.error # ""
        THEN Outcome(compiled.error, None, FALSE, 0, looked.store, Some(cache_key), None, "")
        ELSE RunQuery(looked.store, t, data, job, spec, cache_key, compiled.query[1],
                      cache_ttl, how, setRaises)

(***************************************************************************)
(* Spec: one engine, execute calls one after another.                      *)
(***************************************************************************)
EngineTtls == {None, Some(0), Some(1)}

\* The effective TTL of a SpecCache.set called with ttl.
EffectiveTtl(ttl) == Max(effective_ttl(ttl), 0)

\* Until when the value an execute call returned stays readable under its key.
LiveUntil(o, st, t, cache_ttl) ==
    IF o.error # "" THEN 0
    ELSE IF o.hit THEN st[o.key[1]].set_at + EffectiveTtl(st[o.key[1]].ttl_arg)
    ELSE t + EffectiveTtl(cache_ttl)

\* Which cache call raises during one execute: none, the get or the set.
Faults == IF backend = "faulty" THEN {"", "get", "set"} ELSE {""}

Execute(spec, organisation, bypass_cache, cache_ttl, how, fault) ==
    /\ ncalls < MaxCalls
    /\ \E o \in {execute(store, now, ver, jobs + 1, spec, organisation, bypass_cache,
                         cache_ttl, how, fault = "get", fault = "set")} :
        /\ ncalls' = ncalls + 1
        /\ store' = o.store
        /\ jobs' = jobs + o.execs
        /\ last' = [spec |-> Some(spec), org |-> organisation,
                    bypass_cache |-> bypass_cache, cache_ttl |-> cache_ttl,
                    error |-> o.error, result |-> o.result, hit |-> o.hit,
                    execs |-> o.execs, key |-> o.key, job_id |-> o.job_id,
                    raised_by_cache |-> o.raised_by_cache, at |-> now,
                    live_until |-> LiveUntil(o, store, now, cache_ttl),
                    byte_same |-> (last.spec = Some(spec)), cleared |-> FALSE,
                    had_live |-> (/\ o.key # None
                                  /\ o.key[1] \in DOMAIN store
                                  /\ ~expired(store[o.key[1]], now))]
        /\ UNCHANGED <<now, ver, backend, ret, phase, hashVars, concVars, queryVars, manifestVars, paramVars>>

\* Another component empties the cache (SpecCache.clear).
Clear ==
    /\ store # <<>>
    /\ store' = LocalCacheBackend_clear(store)
    /\ last' = [last EXCEPT !.cleared = TRUE]
    /\ UNCHANGED <<now, ver, jobs, ncalls, backend, ret, phase, hashVars, concVars, queryVars, manifestVars, paramVars>>

\* New events reach the warehouse table: the same query now yields other rows.
DataChange ==
    /\ ver < MaxVer
    /\ ver' = ver + 1
    /\ UNCHANGED <<store, now, jobs, ncalls, last, backend, ret, phase, hashVars, concVars, queryVars, manifestVars, paramVars>>

Advance ==
    /\ now < MaxTime
    /\ now' = now + 1
    /\ UNCHANGED <<store, ver, jobs, ncalls, last, backend, ret, phase, hashVars, concVars, queryVars, manifestVars, paramVars>>

NoCall ==
    [spec |-> None, org |-> "", bypass_cache |-> FALSE, cache_ttl |-> None,
     error |-> "none", result |-> None, hit |-> FALSE, execs |-> 0, key |-> None,
     job_id |-> None, raised_by_cache |-> "", at |-> 0, live_until |-> 0,
     byte_same |-> FALSE, cleared |-> FALSE, had_live |-> FALSE]

Init ==
    /\ QueryIdle /\ ManifestIdle /\ ParamIdle
    /\ HashIdle
    /\ ConcIdle
    /\ store = <<>> /\ now = 0 /\ ret = None /\ phase = None
    /\ backend \in {"local", "faulty"}
    /\ ver = 0 /\ jobs = 0 /\ ncalls = 0
    /\ last = NoCall

Next ==
    \/ /\ ncalls < MaxCalls
       /\ \E spec \in EngineSpecs, organisation \in Orgs, bypass_cache \in BOOLEAN,
             cache_ttl \in EngineTtls, how \in WarehouseOutcomes,
             fault \in Faults :
               Execute(spec, organisation, bypass_cache, cache_ttl, how, fault)
    \/ Clear
    \/ DataChange
    \/ Advance

Spec == Init /\ [][Next]_vars

\* The step is an execute call that found the cache as the previous call left it
\* (no clear in between), made for the same organisation, neither call bypassing
\* the cache, while the TTL under which the previous result is held has not elapsed.
RepeatWithinTtl ==
    /\ ncalls' = ncalls + 1
    /\ last.error = ""
    /\ last'.org = last.org
    /\ ~last.bypass_cache /\ ~last'.bypass_cache
    /\ ~last.cleared
    /\ now < last.live_until
    /\ last'.raised_by_cache = ""

ServedFromCache ==
    /\ last'.error = "" /\ last'.hit
    /\ last'.result = last.result
    /\ last'.execs = 0 /\ jobs' = jobs

\* C1: two successive execute(S, org) calls on the same cache, bypass_cache false, the
\* effective TTL positive and not elapsed, no clear() in between: the second call
\* returns the ChartResult the first returned and runs no warehouse job (whatever
\* happened to the warehouse data in between).
IdempotentExecute ==
    [][(RepeatWithinTtl /\ last'.spec = last.spec) => ServedFromCache]_vars

\* The second of two calls with the same spec was served from the cache after the
\* warehouse data changed: one job over both calls, the first call's rows returned.
RepeatServedFromCache ==
    /\ ncalls = 2 /\ jobs = 1
    /\ last.hit /\ last.byte_same /\ last.error = ""
    /\ ver = 1 /\ last.result[1].rows.data = 0

\* b is a with the keys of any of its mappings in another order.
RECURSIVE KeyPermuted(_, _)
KeyPermuted(a, b) ==
    /\ a.kind = b.kind /\ a.atom = b.atom /\ Len(a.kids) = Len(b.kids)
    /\ IF a.kind = "dict"
       THEN \A i \in 1..Len(a.kids) : \E j \in 1..Len(b.kids) :
                a.kids[i][1] = b.kids[j][1] /\ KeyPermuted(a.kids[i][2], b.kids[j][2])
       ELSE \A i \in 1..Len(a.kids) : KeyPermuted(a.kids[i][2], b.kids[i][2])

\* The documents one adjacent key swap away from doc.
KeySwaps(doc) ==
    UNION { { ReplaceAt(doc, p, SwapKids(NodeAt(doc, p), i)) :
                i \in 1..(Len(NodeAt(doc, p).kids) - 1) } :
            p \in {q \in Paths(doc) : NodeAt(doc, q).kind = "dict"} }

KeyOrders == {ReverseKeys(LiveFlow)} \cup KeySwaps(LiveFlow)

\* build_cache_key gives every key order of LiveFlow the key of LiveFlow, for every table.
KeyOrdersAgree ==
    \A d \in KeyOrders, t \in Tables : build_cache_key(d, t) = build_cache_key(LiveFlow, t)

\* C2: permuting the keys of any mapping nested in a spec leaves build_cache_key
\* unchanged for every table, and execute with a key-reordered copy of the spec just
\* executed is a cache hit: equal result, no further warehouse job.
KeyOrderIndependent ==
    [][/\ KeyOrdersAgree
       /\ (RepeatWithinTtl /\ ~last'.byte_same /\ KeyPermuted(last.spec[1], last'.spec[1]))
              => (ServedFromCache /\ last'.key = last.key)]_vars

\* A byte-different, key-reordered copy of the spec just executed was served from the
\* cache: one warehouse job over both calls.
ReorderedCopyServedFromCache ==
    /\ ncalls = 2 /\ jobs = 1
    /\ last.hit /\ ~last.byte_same /\ last.error = ""
    /\ last.spec \in {Some(LiveFlow), Some(ReverseKeys(LiveFlow))}

\* The entries of st a get at time t would return.
LiveEntries(st, t) == [k \in {x \in DOMAIN st : ~expired(st[x], t)} |-> st[k]]

\* The warehouse call of the last execute raised.
WarehouseRaised == last.execs = 1 /\ last.error \in {"BigQueryDataFrameError", "Exception"}

\* C6: when the warehouse call made by execute raises, execute propagates the typed
\* executor error carrying the job identifier, the cache is as it was before the
\* call, and the next execute with the same spec and organisation runs the
\* warehouse again.
ExecutorFailuresTypedAndNotCached ==
    [][ncalls' = ncalls + 1 =>
         /\ WarehouseRaised' =>
               /\ last'.error = "BigQueryDataFrameError" /\ last'.job_id # None
               /\ LiveEntries(store', now) = LiveEntries(store, now)
         /\ (WarehouseRaised /\ last'.spec = last.spec /\ last'.org = last.org
                /\ last'.raised_by_cache = "")
               => (~last'.hit /\ last'.execs = 1)]_vars

\* What the code keeps of C6 whichever way the warehouse call fails: the error leaves
\* execute, a BigQueryDataFrameError carries the job identifier, the entries a get
\* would return are unchanged, and after a failed call that had looked the key up
\* the next execute with the same spec and organisation runs the warehouse again.
ExecutorFailuresNotCached ==
    [][ncalls' = ncalls + 1 =>
         /\ WarehouseRaised' =>
               /\ last'.result = None
               /\ last'.error = "BigQueryDataFrameError" => last'.job_id # None
               /\ LiveEntries(store', now) = LiveEntries(store, now)
               /\ DOMAIN store' \subseteq DOMAIN store
         /\ (WarehouseRaised /\ ~last.bypass_cache /\ last'.spec = last.spec
                /\ last'.org = last.org /\ last'.raised_by_cache = "")
               => (~last'.hit /\ last'.execs = 1)]_vars

\* C7: when the cache raises on get or on set, execute still returns the ChartResult.
CacheErrorsNonFatal ==
    last.raised_by_cache # "" => (last.error = "" /\ last.result # None)

\* Table names of one to four dot-separated parts.
NamesByParts ==
    {<<"table">>, <<"ds", "table">>, <<"proj", "ds", "table">>,
     <<"proj", "ds", "sub", "table">>}

\* resolve over routers holding one name each: absent organisations are unknown,
\* names without exactly two dots are malformed, the others come back verbatim.
ResolveRule ==
    \A name \in NamesByParts :
        LET mapping == [org \in {"org"} |-> name]
        IN  /\ resolve(mapping, "other") =
                   [error |-> "UnknownOrganisationError", table |-> None]
            /\ resolve(mapping, "org") =
                   IF Len(name) = 3 THEN [error |-> "", table |-> Some(name)]
                   ELSE [error |-> "ValueError", table |-> None]

\* The last execute was stopped by the router.
RoutingFailed == last.error \in {"UnknownOrganisationError", "ValueError"}

\* C11: resolve fails with UnknownOrganisationError for an organisation absent from
\* the mapping, with the malformed-name error unless the mapped name has exactly two
\* dots, and otherwise returns the name verbatim; an execute for an unknown or
\* malformed tenant reads nothing from the cache, writes nothing to it and runs
\* nothing on the warehouse.
RoutingFailuresTouchNothing ==
    [][ncalls' = ncalls + 1 =>
         /\ ResolveRule
         /\ last'.org \notin DOMAIN RouterMapping
               => last'.error = "UnknownOrganisationError"
         /\ (last'.org \in DOMAIN RouterMapping /\ Len(RouterMapping[last'.org]) # 3)
               => last'.error = "ValueError"
         /\ (last'.org \in DOMAIN RouterMapping /\ Len(RouterMapping[last'.org]) = 3)
               => (~RoutingFailed' /\ last'.key # None
                     /\ last'.key[1][1] = RouterMapping[last'.org])
         /\ RoutingFailed' =>
               /\ store' = store /\ jobs' = jobs
               /\ last'.execs = 0 /\ ~last'.hit /\ last'.result = None
               /\ last'.key = None /\ last'.raised_by_cache = ""]_vars

\* A malformed tenant asked while the cache holds an entry.
MalformedTenantOnWarmCache ==
    /\ ncalls = 2 /\ last.org = "legacy" /\ last.error = "ValueError"
    /\ store # <<>> /\ jobs = 1

\* The last execute got past the router and the cache and the warehouse answered.
ReachedCompile ==
    /\ last.spec # None /\ ~RoutingFailed /\ ~last.hit
    /\ last.error \notin {"CacheError", "Exception", "BigQueryDataFrameError"}

\* C13: an execute of a spec whose chart type has no implementation (single_value)
\* fails at the compile step with zero warehouse executions.
UnsupportedChartStopsAtCompile ==
    (ReachedCompile /\ last.spec = Some(Headline)) =>
        /\ last.error \in {"UnsupportedChartError", "UnsupportedMeasureError"}
        /\ last.execs = 0 /\ last.job_id = None

\* C14: an execute of a single_value spec with exactly one measure returns a
\* ChartResult of chartType single_value whose only series has geometry metric.
SingleValueExecutes ==
    (ReachedCompile /\ last.spec = Some(Headline) /\ Len(Measures(Headline)) = 1) =>
        /\ last.error = "" /\ last.result # None
        /\ last.result[1].chartType = "single_value"
        /\ Len(last.result[1].series) = 1
        /\ last.result[1].series[1].geometry = "metric"

(***************************************************************************)
(* SpecConc: execute calls running in threads against one engine.  A call  *)
(* takes the backend lock for the whole of get and for the store           *)
(* assignment inside set; set reads the clock before it takes the lock.    *)
(***************************************************************************)
Threads == {"t1", "t2", "t3"}

\* Every thread submits the same spec for the same organisation.
ConcSpec == LiveFlow

ConcTable == TableRouter_resolve("client0").table[1]

ConcKey == CacheKeyOf[ConcSpec][ConcTable]

ConcTtls == {None, Some(1)}

Idle ==
    [pc |-> "idle", cache_ttl |-> None, cached |-> None, result |-> None,
     expires_at |-> None, stamped_at |-> 0, execs |-> 0, looked_at |-> 0,
     looked_after |-> 0]

\* execute lines 106-111: resolve, build the key, cache.get under the lock.
Lookup(t, cache_ttl) ==
    /\ threads[t].pc = "idle"
    /\ \E looked \in {SpecCache_get(store, ConcKey, now)} :
        /\ store' = looked.store
        /\ threads' = [threads EXCEPT ![t] =
              [@ EXCEPT !.pc = IF looked.value # None THEN "done" ELSE "missed",
                        !.cache_ttl = cache_ttl,
                        !.cached = looked.value,
                        !.result = looked.value,
                        !.looked_at = now,
                        !.looked_after = Len(writes)]]
    /\ UNCHANGED <<now, ret, phase, writes, hashVars, engineVars, queryVars, manifestVars, paramVars>>

\* execute lines 113-134: compile, run the warehouse, normalise, validate the result.
Query(t) ==
    /\ threads[t].pc = "missed"
    /\ \E answer \in {query_dataframe(CompiledOf[ConcSpec][ConcTable].query[1],
                                      "ok", ver, jobs + 1)} :
        /\ jobs' = jobs + 1
        /\ threads' = [threads EXCEPT ![t] =
              [@ EXCEPT !.pc = "computed",
                        !.execs = @ + 1,
                        !.result = _normalise(ConcSpec,
                                              CompiledOf[ConcSpec][ConcTable].query[1],
                                              answer.frame[1])]]
    /\ UNCHANGED <<cacheVars, backend, ver, ncalls, last, writes, hashVars, queryVars, manifestVars, paramVars>>

\* LocalCacheBackend.set line 50: expires_at is computed before the lock is taken.
SetClock(t) ==
    /\ threads[t].pc = "computed"
    /\ threads' = [threads EXCEPT ![t] =
          [@ EXCEPT !.pc = "stamped",
                    !.expires_at = ExpiresAt(Some(effective_ttl(threads[t].cache_ttl)), now),
                    !.stamped_at = now]]
    /\ UNCHANGED <<cacheVars, engineVars, writes, hashVars, queryVars, manifestVars, paramVars>>

\* LocalCacheBackend.set lines 51-52: the entry replaces the stored one under the lock.
SetStore(t) ==
    /\ threads[t].pc = "stamped"
    /\ store' = StoreEntry(store, ConcKey, threads[t].result[1], threads[t].expires_at,
                           threads[t].stamped_at, threads[t].cache_ttl)
    /\ writes' = Append(writes, [by |-> t, value |-> threads[t].result[1],
                                 expires_at |-> threads[t].expires_at])
    /\ threads' = [threads EXCEPT ![t] = [@ EXCEPT !.pc = "done"]]
    /\ UNCHANGED <<now, ret, phase, engineVars, hashVars, queryVars, manifestVars, paramVars>>

ConcInit ==
    /\ QueryIdle /\ ManifestIdle /\ ParamIdle
    /\ HashIdle
    /\ store = <<>> /\ now = 0 /\ ret = None /\ phase = None
    /\ backend = "local" /\ ver = 0 /\ jobs = 0 /\ ncalls = 0 /\ last = None
    /\ threads = [t \in Threads |-> Idle]
    /\ writes = <<>>

ConcNext ==
    \/ \E t \in Threads, cache_ttl \in ConcTtls : Lookup(t, cache_ttl)
    \/ \E t \in Threads : Query(t)
    \/ \E t \in Threads : SetClock(t)
    \/ \E t \in Threads : SetStore(t)
    \/ DataChange
    \/ Advance

SpecConc == ConcInit /\ [][ConcNext]_vars

LastWrite == writes[Len(writes)]

\* C10: of concurrent execute calls for one (table, spec), each that misses runs its
\* own warehouse job and writes; the cache holds exactly the entry of the write that
\* happened last; a reader gets the whole value of the latest write, and misses only
\* when nothing was written yet or the latest write had expired.
LastWriteWins ==
    /\ \A t \in Threads :
          /\ (threads[t].pc = "done" /\ threads[t].cached = None) =>
                /\ threads[t].execs = 1
                /\ Cardinality({i \in 1..Len(writes) : writes[i].by = t}) = 1
          /\ threads[t].cached # None =>
                /\ threads[t].execs = 0
                /\ threads[t].looked_after > 0
                /\ threads[t].cached[1] = writes[threads[t].looked_after].value
          /\ (threads[t].pc # "idle" /\ threads[t].cached = None
                /\ threads[t].looked_after > 0) =>
                writes[threads[t].looked_after].expires_at[1] <= threads[t].looked_at
    /\ jobs = Cardinality({t \in Threads : threads[t].execs = 1})
    /\ DOMAIN store \subseteq {ConcKey}
    /\ ConcKey \in DOMAIN store =>
          /\ writes # <<>>
          /\ store[ConcKey].value = LastWrite.value
          /\ store[ConcKey].expires_at = LastWrite.expires_at
    /\ (ConcKey \notin DOMAIN store /\ writes # <<>>) => LastWrite.expires_at[1] <= now

\* Two calls both missed, ran one job each and wrote different results; the cache
\* holds the second write, and a third call was served exactly that.
BothMissedSecondWriteKept ==
    \E a, b, c \in Threads :
        /\ a # b /\ c \notin {a, b}
        /\ threads[a].pc = "done" /\ threads[a].cached = None
        /\ threads[b].pc = "done" /\ threads[b].cached = None
        /\ threads[a].looked_after = 0 /\ threads[b].looked_after = 0
        /\ Len(writes) = 2 /\ writes[1].by = a /\ writes[2].by = b
        /\ writes[1].value # writes[2].value
        /\ jobs = 2
        /\ store[ConcKey].value = writes[2].value
        /\ threads[c].cached = Some(writes[2].value)

(***************************************************************************)
(* The warehouse side of a compiled query: what the SQL of compiler.py     *)
(* yields over the events of the table.  Timestamps are whole seconds      *)
(* since 2024-01-01T00:00:00Z (a Monday); SQL numbers are fractions        *)
(* <<numerator, denominator>>, NULL is None.                               *)
(***************************************************************************)
\* An INT64 and a FLOAT64 value.
Int64(n) == [int |-> TRUE, num |-> n, den |-> 1]

RECURSIVE GCD(_, _)
GCD(a, b) == IF b = 0 THEN a ELSE GCD(b, a % b)

\* The FLOAT64 n / d (d > 0), in lowest terms.
Float64(n, d) ==
    LET g == GCD(IF n >= 0 THEN n ELSE 0 - n, d)
    IN  [int |-> FALSE, num |-> n \div g, den |-> d \div g]

\* Python float() and int() of a number of the frame
float(v) == [v EXCEPT !.int = FALSE]

int(v) ==
    Int64(IF v.num >= 0 THEN v.num \div v.den ELSE 0 - ((0 - v.num) \div v.den))

Leq(x, y) == x.num * y.den <= y.num * x.den

Same(x, y) == x.num * y.den = y.num * x.den

Min(a, b) == IF a <= b THEN a ELSE b

\* SAFE_DIVIDE(a, b)
SAFE_DIVIDE(a, b) == IF b = 0 THEN None ELSE Some(Float64(a, b))

\* The sum of f over the set S.
RECURSIVE SumOver(_, _)
SumOver(S, f) ==
    IF S = {} THEN 0
    ELSE LET x == CHOOSE y \in S : TRUE IN f[x] + SumOver(S \ {x}, f)

Pad2(n) == IF n < 10 THEN "0" \o ToString(n) ELSE ToString(n)

\* engine._to_iso of a UTC timestamp of January 2024
_to_iso(t) ==
    "2024-01-" \o Pad2(1 + (t \div 86400)) \o "T" \o Pad2((t % 86400) \div 3600) \o ":"
        \o Pad2((t % 3600) \div 60) \o ":" \o Pad2(t % 60) \o "Z"

\* _BUCKET_SECONDS and the INTERVAL of _bucket_interval_expression, fixed-size buckets
_BUCKET_SECONDS(bucket) ==
    CASE bucket = "5_MIN" -> 300
      [] bucket = "15_MIN" -> 900
      [] bucket = "30_MIN" -> 1800
      [] bucket = "HOUR" -> 3600
      [] bucket = "DAY" -> 86400
      [] bucket = "WEEK" -> 604800

\* _bucket_trunc_expression: TIMESTAMP_TRUNC(@start_ts, ...) for buckets up to a day
_bucket_trunc_expression(bucket, start_ts) ==
    (start_ts \div _BUCKET_SECONDS(bucket)) * _BUCKET_SECONDS(bucket)

\* The column of an event a filter field names.
Column(e, field) ==
    CASE field = "site_id" -> e.site_id
      [] field = "cam_id" -> e.cam_id
      [] field = "track_no" -> e.track_no
      [] field = "event_type" -> e.event_type
      [] field = "index" -> e.index
      [] field = "timestamp" -> e.timestamp

\* The SQL predicate _compile_condition emits, evaluated on one event.
ConditionHolds(p, e) ==
    LET x == Column(e, p.name)
        v == p.value[1]
    IN  CASE p.op = "equals" -> x = v.atom
          [] p.op = "not_equals" -> x # v.atom
          [] p.op = "in" -> \E i \in 1..Len(v.kids) : x = v.kids[i][2].atom
          [] p.op = "not_in" -> \A i \in 1..Len(v.kids) : x # v.kids[i][2].atom
          [] p.op = "between" -> v.kids[1][2].atom <= x /\ x <= v.kids[2][2].atom
          [] p.op = "gte" -> x >= v.atom
          [] p.op = "lte" -> x <= v.atom
          [] p.op = "gt" -> x > v.atom
          [] p.op = "lt" -> x < v.atom

\* The clause _compile_group emits, evaluated on one event; a group without
\* conditions emits no clause.
RECURSIVE PredicateHolds(_, _)
PredicateHolds(p, e) ==
    IF p.leaf THEN ConditionHolds(p, e)
    ELSE IF p.conds = <<>> THEN TRUE
    ELSE IF p.name = "OR" THEN \E i \in 1..Len(p.conds) : PredicateHolds(p.conds[i], e)
    ELSE \A i \in 1..Len(p.conds) : PredicateHolds(p.conds[i], e)

\* The instants the time windows of the submitted specs name, by their text.
Instants == {0, 1800, 9000, 10800, 86400, 1209600}

ParseTimestamp(text) == CHOOSE t \in Instants : _to_iso(t) = text

\* SpecCompiler._render_scoped: the rows of the scoped CTE.
_render_scoped(events, query) ==
    {e \in events :
        /\ ParseTimestamp(query.start_ts) <= e.timestamp
        /\ e.timestamp <= ParseTimestamp(query.end_ts)
        /\ \A i \in 1..Len(query.filters) : PredicateHolds(query.filters[i], e)}

\* SpecCompiler._render_calendar: the rows of the calendar CTE.
_render_calendar(query) ==
    LET window_start == ParseTimestamp(query.start_ts)
        window_end == ParseTimestamp(query.end_ts)
        step == _BUCKET_SECONDS(query.bucket)
        aligned_start == _bucket_trunc_expression(query.bucket, window_start)
        add(bucket_start) == Min(bucket_start + step, window_end)
    IN  {[bucket_start |-> bucket_start,
          bucket_end |-> add(bucket_start),
          bucket_seconds |-> Max(add(bucket_start) - bucket_start, 0),
          window_seconds |-> Max(add(bucket_start) - Max(bucket_start, window_start), 0)] :
            bucket_start \in {b \in {aligned_start + k * step :
                                        k \in 0..((window_end - aligned_start) \div step)} :
                                 b < window_end}}

\* ORDER BY timestamp, event_index: a sorts no later than b.
NotAfter(a, b) ==
    a.timestamp < b.timestamp \/ (a.timestamp = b.timestamp /\ a.index <= b.index)

\* IF(event_type = 1, 1, -1)
Delta(e) == IF e.event_type = 1 THEN 1 ELSE -1

\* SUM(delta) OVER (PARTITION BY site_id, cam_id ORDER BY timestamp, event_index)
running_total(scoped, e) ==
    SumOver({x \in scoped : x.site_id = e.site_id /\ x.cam_id = e.cam_id /\ NotAfter(x, e)},
            [x \in scoped |-> Delta(x)])

\* The rows of scoped a calendar bucket joins with.
InBucket(scoped, b) ==
    {e \in scoped : e.timestamp >= b.bucket_start /\ e.timestamp < b.bucket_end}

\* occupancy_end without GREATEST(running_total, 0).
occupancy_end_unclamped(scoped, b, prefer) ==
    LET rows == InBucket(scoped, b)
        lastRows == {e \in rows : \A x \in rows : NotAfter(x, e)}
        taken == IF \E e \in lastRows : e.cam_id = prefer
                 THEN CHOOSE e \in lastRows : e.cam_id = prefer
                 ELSE CHOOSE e \in lastRows : TRUE
    IN  IF rows = {} THEN None ELSE Some(running_total(scoped, taken))

\* ANY_VALUE(occupancy ORDER BY timestamp DESC, event_index DESC): the clamped total
\* of a row that sorts last in the bucket; among rows that tie, the warehouse takes
\* any, here the one of camera prefer when there is one.
occupancy_end(scoped, b, prefer) ==
    LET rows == InBucket(scoped, b)
        lastRows == {e \in rows : \A x \in rows : NotAfter(x, e)}
        taken == IF \E e \in lastRows : e.cam_id = prefer
                 THEN CHOOSE e \in lastRows : e.cam_id = prefer
                 ELSE CHOOSE e \in lastRows : TRUE
    IN  IF rows = {} THEN None ELSE Some(Max(running_total(scoped, taken), 0))

\* COALESCE(occupancy_end, LAST_VALUE(occupancy_end IGNORE NULLS) OVER (...), 0)
occupancy_filled(scoped, calendar, b, prefer) ==
    LET earlier == {c \in calendar : c.bucket_start <= b.bucket_start
                                      /\ occupancy_end(scoped, c, prefer) # None}
        latest == CHOOSE c \in earlier : \A d \in earlier : d.bucket_start <= c.bucket_start
    IN  IF earlier = {} THEN 0 ELSE occupancy_end(scoped, latest, prefer)[1]

\* SpecCompiler._render_occupancy: the row of the measure's select for bucket b.
_render_occupancy(measure_id, scoped, calendar, b, prefer) ==
    LET rows == InBucket(scoped, b)
        seeded_by_exit == \E e \in rows : running_total(scoped, e) < 0
        whole == SAFE_DIVIDE(b.window_seconds, b.bucket_seconds)
    IN  [measure_id |-> measure_id,
         bucket_start |-> b.bucket_start,
         value |-> Some(Int64(occupancy_filled(scoped, calendar, b, prefer))),
         coverage |-> IF b.bucket_seconds = 0 \/ rows = {} THEN Some(Float64(0, 1))
                      ELSE IF seeded_by_exit /\ Leq(Float64(1, 2), whole[1])
                      THEN Some(Float64(1, 2))
                      ELSE whole,
         raw_count |-> Some(Int64(Cardinality(rows)))]

\* SpecCompiler._activity_counts_cte: COUNT(scoped.timestamp) of bucket b.
_activity_counts_cte(read, scoped, b) ==
    Cardinality({e \in InBucket(scoped, b) :
                    Truthy(read.eventTypes) =>
                        \E i \in 1..Len(read.eventTypes[1].kids) :
                            e.event_type = read.eventTypes[1].kids[i][2].atom})

\* The coverage CASE of the activity, activity-rate and dwell series.
CountCoverage(b, n) ==
    IF b.bucket_seconds = 0 \/ n = 0 THEN Some(Float64(0, 1))
    ELSE SAFE_DIVIDE(b.window_seconds, b.bucket_seconds)

\* SpecCompiler._render_activity
_render_activity(read, scoped, b) ==
    LET event_count == _activity_counts_cte(read, scoped, b)
    IN  [measure_id |-> read.id,
         bucket_start |-> b.bucket_start,
         value |-> Some(Int64(event_count)),
         coverage |-> CountCoverage(b, event_count),
         raw_count |-> Some(Int64(event_count))]

\* SpecCompiler._render_activity_rate
_render_activity_rate(read, scoped, b) ==
    LET event_count == _activity_counts_cte(read, scoped, b)
    IN  [measure_id |-> read.id,
         bucket_start |-> b.bucket_start,
         value |-> IF b.window_seconds = 0 THEN None
                   ELSE SAFE_DIVIDE(event_count * 60, b.window_seconds),
         coverage |-> CountCoverage(b, event_count),
         raw_count |-> Some(Int64(event_count))]

\* TIMESTAMP_DIFF(later, earlier, part) for a part of `seconds` seconds: the whole
\* number of parts between the two, negative when later is the earlier one.
TIMESTAMP_DIFF(later, earlier, seconds) ==
    IF later >= earlier THEN (later - earlier) \div seconds
    ELSE 0 - ((earlier - later) \div seconds)

\* ROW_NUMBER() OVER (PARTITION BY site_id, cam_id, track_no ORDER BY timestamp, index)
\* among the rows of scoped of one event type.  scoped projects the column as
\* event_index; the dwell and retention CTEs name it index.
rn(scoped, e) ==
    Cardinality({x \in scoped :
                    /\ x.event_type = e.event_type
                    /\ x.site_id = e.site_id /\ x.cam_id = e.cam_id
                    /\ x.track_no = e.track_no
                    /\ NotAfter(x, e)})

\* The {prefix}_sessions CTE of SpecCompiler._render_dwell: entrance e and exit x of the
\* same site, camera and track with the same row number, kept when
\* TIMESTAMP_DIFF(x, e, MINUTE) BETWEEN 0 AND limit.
dwell_sessions(scoped, limit) ==
    {[site_id |-> e.site_id, cam_id |-> e.cam_id, track_no |-> e.track_no,
      entrance_ts |-> e.timestamp, exit_ts |-> x.timestamp,
      dwell_minutes |-> Float64(TIMESTAMP_DIFF(x.timestamp, e.timestamp, 1), 60)] :
        <<e, x>> \in {p \in scoped \X scoped :
                        /\ p[1].event_type = 1 /\ p[2].event_type = 0
                        /\ p[1].site_id = p[2].site_id /\ p[1].cam_id = p[2].cam_id
                        /\ p[1].track_no = p[2].track_no
                        /\ rn(scoped, p[1]) = rn(scoped, p[2])
                        /\ TIMESTAMP_DIFF(p[2].timestamp, p[1].timestamp, 60) >= 0
                        /\ TIMESTAMP_DIFF(p[2].timestamp, p[1].timestamp, 60) <= limit}}

\* SpecCompiler._render_dwell for dwell_mean and sessions: the row for bucket b.
_render_dwell(read, scoped, b) ==
    LET sessions == {s \in dwell_sessions(scoped, 360) :
                        s.entrance_ts >= b.bucket_start /\ s.entrance_ts < b.bucket_end}
        session_count == Cardinality(sessions)
    IN  [measure_id |-> read.id,
         bucket_start |-> b.bucket_start,
         value |-> CASE read.aggregation = "sessions" -> Some(Int64(session_count))
                     [] read.aggregation = "dwell_mean" ->
                           IF session_count = 0 THEN None
                           ELSE Some(Float64(SumOver(sessions, [s \in sessions |-> s.exit_ts - s.entrance_ts]),
                                             60 * session_count)),
         coverage |-> CountCoverage(b, session_count),
         raw_count |-> Some(Int64(session_count))]

\* TIMESTAMP_TRUNC(t, WEEK(MONDAY)); the epoch is a Monday.
WeekOf(t) == (t \div 604800) * 604800

\* SpecCompiler._render_retention_calendar for WEEK: the (cohort, lag) cells.
_render_retention_calendar(query) ==
    LET aligned_start == WeekOf(ParseTimestamp(query.start_ts))
        window_end == ParseTimestamp(query.end_ts)
        max_lag == (window_end - aligned_start + 604800 - 1) \div 604800
    IN  {[bucket_start |-> c, lag_weeks |-> lag] :
            c \in {aligned_start + k * 604800 :
                      k \in {n \in 0..((window_end - aligned_start) \div 604800) :
                                aligned_start + n * 604800 < window_end}},
            lag \in 0..Max(max_lag, 0)}

\* The {prefix}_visits CTE of SpecCompiler._render_retention: an entrance with no earlier
\* entrance of its site and track (LAG(timestamp) IS NULL), or at least min_gap whole
\* minutes after the previous one.  Of entrances that tie in the order only the first
\* can be a visit, and it is one exactly when the rows before the tie allow it.
retention_visits(scoped, min_gap) ==
    LET entrances == {e \in scoped : e.event_type = 1}
        before(e) == {x \in entrances : /\ x.site_id = e.site_id /\ x.track_no = e.track_no
                                        /\ ~NotAfter(e, x)}
        prev_timestamp(e) == CHOOSE t \in {x.timestamp : x \in before(e)} :
                                 \A x \in before(e) : x.timestamp <= t
    IN  {[site_id |-> e.site_id, track_no |-> e.track_no, visit_ts |-> e.timestamp,
          cohort_week |-> WeekOf(e.timestamp)] :
            e \in {v \in entrances :
                      \/ before(v) = {}
                      \/ TIMESTAMP_DIFF(v.timestamp, prev_timestamp(v), 60) >= min_gap}}

\* COUNT(DISTINCT track_no) of the visits of a cohort week
cohort_size(visits, week) == Cardinality({v.track_no : v \in {w \in visits : w.cohort_week = week}})

\* retention_returning without the visit paired with itself.
retention_returning_later(visits, week, lag) ==
    Cardinality({p[2].track_no :
        p \in {q \in visits \X visits :
                  /\ q[1].cohort_week = week
                  /\ q[1].site_id = q[2].site_id /\ q[1].track_no = q[2].track_no
                  /\ q[2].visit_ts > q[1].visit_ts
                  /\ TIMESTAMP_DIFF(q[2].visit_ts, q[1].visit_ts, 86400) \div 7 = lag
                  /\ lag >= 0 /\ lag <= 52}})

\* The {prefix}_counts CTE: distinct tracks of cohort `week` seen again `lag` weeks later.
retention_returning(visits, week, lag) ==
    Cardinality({p[2].track_no :
        p \in {q \in visits \X visits :
                  /\ q[1].cohort_week = week
                  /\ q[1].site_id = q[2].site_id /\ q[1].track_no = q[2].track_no
                  /\ q[2].visit_ts >= q[1].visit_ts
                  /\ TIMESTAMP_DIFF(q[2].visit_ts, q[1].visit_ts, 86400) \div 7 = lag
                  /\ lag >= 0 /\ lag <= 52}})

\* SpecCompiler._render_retention: the row of the measure's select for one cell.
_render_retention(read, scoped, cell) ==
    LET visits == retention_visits(scoped, 30)
        size == cohort_size(visits, cell.bucket_start)
        returning == retention_returning(visits, cell.bucket_start, cell.lag_weeks)
    IN  [measure_id |-> read.id,
         bucket_start |-> cell.bucket_start,
         lag_weeks |-> cell.lag_weeks,
         value |-> IF size = 0 THEN None ELSE SAFE_DIVIDE(returning, size),
         coverage |-> IF size = 0 THEN Some(Float64(0, 1))
                      ELSE IF size >= 100 THEN Some(Float64(1, 1))
                      ELSE SAFE_DIVIDE(size, 100),
         raw_count |-> Some(Int64(returning))]

\* The select of one measure: its row for one cell of the calendar.
MeasureRow(read, query, scoped, calendar, cell, prefer) ==
    CASE read.aggregation = "occupancy_recursion" ->
            _render_occupancy(read.id, scoped, calendar, cell, prefer)
      [] read.aggregation = "count" -> _render_activity(read, scoped, cell)
      [] read.aggregation = "activity_rate" -> _render_activity_rate(read, scoped, cell)
      [] read.aggregation \in {"dwell_mean", "sessions"} -> _render_dwell(read, scoped, cell)
      [] read.aggregation = "retention_rate" -> _render_retention(read, scoped, cell)

\* The cells of a calendar in the ORDER BY of the final select.
RECURSIVE CellsInOrder(_)
CellsInOrder(cells) ==
    IF cells = {} THEN <<>>
    ELSE LET first == CHOOSE c \in cells : \A d \in cells :
                          \/ c.bucket_start < d.bucket_start
                          \/ (c.bucket_start = d.bucket_start /\ c.lag_weeks <= d.lag_weeks)
         IN  <<first>> \o CellsInOrder(cells \ {first})

RECURSIVE Flatten(_)
Flatten(seqs) == IF seqs = <<>> THEN <<>> ELSE Head(seqs) \o Flatten(Tail(seqs))

\* SpecCompiler._assemble_sql run over the events of the table: the UNION ALL of the
\* measures' selects (one per measure of the spec, repeated ids included), ordered by
\* bucket_start (then lag_weeks); rows of one bucket are kept in select order.
QueryRows(query, events, prefer) ==
    LET scoped == _render_scoped(events, query)
        calendar == IF query.shape = "retention" THEN _render_retention_calendar(query)
                    ELSE {c @@ [lag_weeks |-> 0] : c \in _render_calendar(query)}
        cells == CellsInOrder(calendar)
    IN  Flatten([n \in 1..Len(cells) |->
                    [i \in 1..Len(query.reads) |->
                        MeasureRow(query.reads[i], query, scoped, calendar, cells[n], prefer)]])

(***************************************************************************)
(* engine.py: the series data, coverage and surges of a normalised result. *)
(***************************************************************************)
\* frame[frame["measure_id"] == measure_id], in frame order
RECURSIVE Subset_(_, _)
Subset_(rows, measure_id) ==
    IF rows = <<>> THEN <<>>
    ELSE (IF Head(rows).measure_id = measure_id THEN <<Head(rows)>> ELSE <<>>)
            \o Subset_(Tail(rows), measure_id)

\* The data_points loop of _normalise_time_series: y is float(value), coverage
\* float(coverage), rawCount int(raw_count), None for NULL.
data_points(rows, measure_id) ==
    LET subset == Subset_(rows, measure_id)
    IN  [n \in 1..Len(subset) |->
            [x |-> _to_iso(subset[n].bucket_start),
             y |-> IF subset[n].value = None THEN None
                   ELSE Some(float(subset[n].value[1])),
             coverage |-> IF subset[n].coverage = None THEN None
                          ELSE Some(float(subset[n].coverage[1])),
             rawCount |-> IF subset[n].raw_count = None THEN None
                          ELSE Some(int(subset[n].raw_count[1]))]]

\* The data_points loop of _normalise_heatmap: the same with the value under "value"
\* and the label "Month <lag>" or "Week <lag>" of the cell as its group.
heatmap_points(rows, measure_id, bucket) ==
    LET subset == Subset_(rows, measure_id)
    IN  [n \in 1..Len(subset) |->
            [x |-> _to_iso(subset[n].bucket_start),
             group |-> (IF bucket = "MONTH" THEN "Month " ELSE "Week ")
                          \o ToString(subset[n].lag_weeks),
             value |-> IF subset[n].value = None THEN None
                       ELSE Some(float(subset[n].value[1])),
             coverage |-> IF subset[n].coverage = None THEN None
                          ELSE Some(float(subset[n].coverage[1])),
             rawCount |-> IF subset[n].raw_count = None THEN None
                          ELSE Some(int(subset[n].raw_count[1]))]]

\* The "data" of every series of a normalised result, in series order.
SeriesData(result) ==
    [i \in 1..Len(result.series) |->
        IF result.chartType = "heatmap"
        THEN heatmap_points(result.rows.data, result.series[i].id, result.xDimension.bucket)
        ELSE data_points(result.rows.data, result.series[i].id)]

RECURSIVE Product(_)
Product(seq) == IF seq = <<>> THEN 1 ELSE Head(seq) * Product(Tail(seq))

RECURSIVE SumSeq(_)
SumSeq(seq) == IF seq = <<>> THEN 0 ELSE Head(seq) + SumSeq(Tail(seq))

\* The elements of seq whose flag in keep is set, in order.
RECURSIVE Keep(_, _)
Keep(seq, keep) ==
    IF seq = <<>> THEN <<>>
    ELSE (IF Head(keep) THEN <<Head(seq)>> ELSE <<>>) \o Keep(Tail(seq), Tail(keep))

\* engine._detect_surges, in exact arithmetic.  With every y scaled to the common
\* denominator (s), n values and their sum S: the mean is S / n, float(value) >= mean * 1.1
\* reads 10 n s >= 11 S, and float(value) >= mean + stddev reads
\* n s >= S and n (n s - S)^2 >= the sum of the (n s' - S)^2.
_detect_surges(measure_id, points) ==
    LET valued == Keep(points, [k \in 1..Len(points) |-> points[k].y # None])
        n == Len(valued)
        common == Product([k \in 1..n |-> valued[k].y[1].den])
        scaled == [k \in 1..n |-> valued[k].y[1].num * (common \div valued[k].y[1].den)]
        total == SumSeq(scaled)
        spread == [k \in 1..n |-> (n * scaled[k] - total) * (n * scaled[k] - total)]
        surges == Keep(valued,
                       [k \in 1..n |->
                           IF SumSeq(spread) = 0 THEN 10 * n * scaled[k] >= 11 * total
                           ELSE n * scaled[k] >= total /\ n * spread[k] >= SumSeq(spread)])
    IN  IF n < 2 THEN <<>>
        ELSE [k \in 1..Len(surges) |->
                 [measure |-> measure_id, x |-> surges[k].x, value |-> surges[k].y[1]]]

\* meta.surges of a normalised result: _normalise_time_series extends the list with the
\* surges of every series, _normalise_heatmap sets [].
MetaSurges(result) ==
    IF result.chartType = "heatmap" THEN <<>>
    ELSE Flatten([i \in 1..Len(result.series) |->
                     _detect_surges(result.series[i].id, SeriesData(result)[i])])

\* meta.coverage: frame.groupby("bucket_start")["coverage"].mean(), one entry per
\* bucket_start of the frame.
coverage_meta(rows) ==
    LET starts == Ascending({rows[n].bucket_start : n \in 1..Len(rows)})
        Of(start) == Keep(rows, [n \in 1..Len(rows) |-> rows[n].bucket_start = start])
        Mean(group) ==
            LET common == Product([n \in 1..Len(group) |-> group[n].coverage[1].den])
            IN  Float64(SumSeq([n \in 1..Len(group) |->
                                   group[n].coverage[1].num
                                       * (common \div group[n].coverage[1].den)]),
                        common * Len(group))
    IN  [k \in 1..Len(starts) |->
            [x |-> _to_iso(starts[k]), value |-> float(Mean(Of(starts[k])))]]

\* contracts._validate_series_data on points the normaliser built (x a string, the
\* numbers numeric): every coverage present lies in 0..1.
_validate_series_data(data) ==
    \A n \in 1..Len(data) :
        ("coverage" \in DOMAIN data[n] /\ data[n].coverage # None) =>
            /\ Leq(Float64(0, 1), data[n].coverage[1])
            /\ Leq(data[n].coverage[1], Float64(1, 1))

\* contracts.validate_chart_result with the series data and meta.coverage of the result.
validate_chart_result_data(result) ==
    /\ validate_chart_result(result)
    /\ \A i \in 1..Len(result.series) : _validate_series_data(SeriesData(result)[i])
    /\ _validate_series_data(coverage_meta(result.rows.data))

(***************************************************************************)
(* SpecQuery: events reach the table, and the steps execute takes after    *)
(* the cache lookup (engine.py lines 114-133) run on a submitted spec:     *)
(* compile, query_dataframe, _normalise, validate_chart_result.            *)
(***************************************************************************)
\* Events a table may hold before the pipeline runs.
MaxEvents == 3

\* A spec with another time window; bucket None leaves the bucket out.
Windowed(spec, from, to, bucket) ==
    ReplaceAt(spec, <<5>>,
              IF bucket = None
              THEN JDict(<< <<"from", JStr(from)>>, <<"to", JStr(to)>> >>)
              ELSE TimeWindow(from, to, bucket[1]))

\* One series of per-bucket counts behind one filter condition.
Filtered(condition) ==
    ChartSpec("composed_time", <<Measure("activity", "count")>>, "HOUR",
              <<FilterGroup("AND", <<condition>>)>>)

\* Two measures under one id.
DuplicateIds ==
    ChartSpec("composed_time",
              <<Measure("flow", "occupancy_recursion"), Measure("flow", "count")>>,
              "HOUR", <<>>)

\* Occupancy and rate of one camera over a window that starts and ends inside a bucket.
OneCamera ==
    Windowed(ChartSpec("composed_time",
                       <<Measure("occupancy", "occupancy_recursion"),
                         Measure("rate", "activity_rate")>>,
                       "HOUR",
                       <<FilterGroup("AND", <<Condition("cam_id", "equals", JStr("CAM_1"))>>)>>),
             "2024-01-01T00:30:00Z", "2024-01-01T02:30:00Z", Some("HOUR"))

\* The values a `between` condition may carry: a pair, a scalar, lists of other
\* lengths, none.
BetweenValues ==
    {Some(JList(<<JNum(1), JNum(1)>>)), Some(JNum(1)), Some(JList(<<JNum(1)>>)),
     Some(JList(<<JNum(0), JNum(1), JNum(2)>>)), None}

Between(value) ==
    IF value = None
    THEN JDict(<< <<"field", JStr("event_type")>>, <<"op", JStr("between")>> >>)
    ELSE Condition("event_type", "between", value[1])

SeriesSpecs ==
    {LiveFlow, DuplicateIds, OneCamera, Headline,
     Windowed(LiveFlow, "2024-01-01T00:00:00Z", "2024-01-01T03:00:00Z", None),
     ChartSpec("composed_time", <<Measure("demo", "demographic_count")>>, "HOUR", <<>>)}
      \cup {Filtered(Between(value)) : value \in BetweenValues}

DwellSpecs ==
    {Windowed(ChartSpec("composed_time",
                        <<Measure("visits", "sessions"), Measure("stay", "dwell_mean")>>,
                        "DAY", <<>>),
              "2024-01-01T00:00:00Z", "2024-01-02T00:00:00Z", Some("DAY"))}

RetentionSpecs ==
    {Windowed(ChartSpec(chartType, <<Measure("returning", "retention_rate")>>, "WEEK", <<>>),
              "2024-01-01T00:00:00Z", "2024-01-15T00:00:00Z", Some("WEEK")) :
        chartType \in {"retention", "heatmap"}}

QuerySpecs == SeriesSpecs \cup DwellSpecs \cup RetentionSpecs

Event(timestamp, event_type, site_id, cam_id, track_no) ==
    [timestamp |-> timestamp, event_type |-> event_type, index |-> 0,
     site_id |-> site_id, cam_id |-> cam_id, track_no |-> track_no]

CamIds == {"CAM_1", "CAM_2"}

\* Entrances and exits of two cameras in each bucket of the window and on its end.
SeriesEvents ==
    {Event(t, type, "SITE_01", cam, "a") :
        t \in {600, 4200, 9000, 10800}, type \in {0, 1}, cam \in CamIds}

\* Entrances and exits of two cameras inside the first, the middle and the last bucket of
\* OneCamera's window and on its end.
EdgeEvents ==
    {Event(t, type, "SITE_01", cam, "a") :
        t \in {2400, 4200, 8000, 9000}, type \in {0, 1}, cam \in CamIds}

\* One track at one camera: entrances and exits 30 s apart around an instant and
\* around six hours after it.
DwellEvents ==
    {Event(t, type, "SITE_01", "CAM_1", "a") :
        t \in {30, 60, 21660, 21690, 21720}, type \in {0, 1}}

\* Entrances of two tracks at two sites: ten minutes apart, an hour apart, a week apart.
RetentionEvents ==
    {Event(t, 1, site, "CAM_1", track) :
        t \in {0, 600, 3600, 608400}, site \in {"SITE_01", "SITE_02"}, track \in {"a", "b"}}

\* The events the table of a submitted spec may receive.
EventsFor(spec) ==
    IF spec \in DwellSpecs THEN DwellEvents
    ELSE IF spec \in RetentionSpecs THEN RetentionEvents
    ELSE IF spec = OneCamera THEN EdgeEvents
    ELSE SeriesEvents

QueryTable == <<"proj", "ds", "client0">>

NotRun ==
    [ran |-> FALSE, accepted |-> FALSE, error |-> "", query |-> None, rows |-> None,
     result |-> None]

\* An event reaches the table.
Ingest(e) ==
    /\ Cardinality(qEvents) < MaxEvents
    /\ e \notin qEvents
    /\ qEvents' = qEvents \cup {e}
    /\ qOut' = NotRun
    /\ UNCHANGED <<qSpec, hashVars, cacheVars, engineVars, concVars,
                 manifestVars, paramVars>>

Ran(error, query, rows, result) ==
    [ran |-> TRUE, accepted |-> validate_chart_spec(qSpec), error |-> error,
     query |-> query, rows |-> rows, result |-> result]

\* compile, run, normalise and validate qSpec over the table (engine.py lines 114-133).
RunPipeline(prefer) ==
    /\ \E compiled \in {compile(qSpec, QueryTable)} :
         IF compiled.error # "" THEN qOut' = Ran(compiled.error, None, None, None)
         ELSE \E rows \in {QueryRows(compiled.query[1], qEvents, prefer)} :
              \E result \in {_normalise(qSpec, compiled.query[1],
                                query_dataframe(compiled.query[1], "ok", rows, 1).frame[1])} :
                 qOut' = IF result = None
                         THEN Ran("UnsupportedChartExecution", compiled.query, Some(rows), None)
                         ELSE IF ~validate_chart_result_data(result[1])
                         THEN Ran("ValidationError", compiled.query, Some(rows), None)
                         ELSE Ran("", compiled.query, Some(rows), result)
    /\ UNCHANGED <<qSpec, qEvents, hashVars, cacheVars, engineVars, concVars,
                 manifestVars, paramVars>>

QueryInit ==
    /\ HashIdle /\ CacheIdle /\ EngineIdle /\ ConcIdle /\ ManifestIdle /\ ParamIdle
    /\ qSpec \in QuerySpecs
    /\ qEvents = {}
    /\ qOut = NotRun

QueryNext ==
    \/ \E e \in EventsFor(qSpec) : Ingest(e)
    \/ \E prefer \in CamIds : RunPipeline(prefer)

SpecQuery == QueryInit /\ [][QueryNext]_vars

\* The submitted spec carries a between condition whose value is not a list of two.
MalformedBetween ==
    \E value \in BetweenValues :
        /\ qSpec = Filtered(Between(value))
        /\ ~(IsList(value) /\ Len(value[1].kids) = 2)

\* C12: validate_chart_spec rejects every ChartSpec that contains a between condition
\* whose value is not a 2-element list (a scalar, a list of another length, no value).
ValidatorRejectsMalformedBetween ==
    (qOut.ran /\ MalformedBetween) => ~qOut.accepted

\* C15: for every ChartSpec accepted by validate_chart_spec, compile succeeds, the rows
\* of the compiled query normalise, and validate_chart_result accepts the result.
RoundTrip ==
    (qOut.ran /\ qOut.accepted) => (qOut.error = "" /\ qOut.result # None)

\* The pipeline returned a time-series ChartResult.
TimeSeriesResult ==
    qOut.ran /\ qOut.error = "" /\ qOut.result[1].chartType = "composed_time"

\* The points of series i of the returned result.
Points(i) == SeriesData(qOut.result[1])[i]

\* The events of the table the compiled query reads.
Scoped == _render_scoped(qEvents, qOut.query[1])

\* C16: in every time-series ChartResult each (measure id, bucket_start) pair occurs
\* exactly once: every calendar bucket of the window is present exactly once in every
\* measure's series, with coverage 0 when the bucket has no source events.
EachBucketOncePerMeasure ==
    TimeSeriesResult =>
        \A i \in 1..Len(qOut.result[1].series) :
            /\ \A n, m \in 1..Len(Points(i)) : Points(i)[n].x = Points(i)[m].x => n = m
            /\ \A b \in _render_calendar(qOut.query[1]) :
                  \E n \in 1..Len(Points(i)) :
                      /\ Points(i)[n].x = _to_iso(b.bucket_start)
                      /\ InBucket(Scoped, b) = {} =>
                             Same(Points(i)[n].coverage[1], Float64(0, 1))

\* The window of a bucketed occupancy-and-count spec holds no event.
EmptyWindow ==
    /\ TimeSeriesResult
    /\ qSpec \in {LiveFlow, DuplicateIds}
    /\ Scoped = {}

\* C17: when the window contains zero events, every bucket of a bucketed time-series
\* result is present with value 0, coverage 0 and rawCount 0, and meta.surges is empty.
EmptyWindowAllZeroNoSurges ==
    EmptyWindow =>
        /\ \A i \in 1..Len(qOut.result[1].series) :
              /\ Len(Points(i)) >= Cardinality(_render_calendar(qOut.query[1]))
              /\ \A n \in 1..Len(Points(i)) :
                    /\ Same(Points(i)[n].y[1], Float64(0, 1))
                    /\ Same(Points(i)[n].coverage[1], Float64(0, 1))
                    /\ Points(i)[n].rawCount[1].num = 0
        /\ MetaSurges(qOut.result[1]) = <<>>

\* The calendar bucket a point stands for.
BucketOf(point) ==
    CHOOSE b \in _render_calendar(qOut.query[1]) : _to_iso(b.bucket_start) = point.x

\* The rows of a bucket that sort last in (timestamp, event_index).
LastOf(b) ==
    {e \in InBucket(Scoped, b) : \A x \in InBucket(Scoped, b) : NotAfter(x, e)}

DwellSessionsWithinSixHours ==
    (qOut.ran /\ qOut.error = "" /\ qSpec \in DwellSpecs) =>
        \A s \in dwell_sessions(Scoped, 360) :
            /\ Leq(Float64(0, 1), s.dwell_minutes)
            /\ Leq(s.dwell_minutes, Float64(360, 1))

\* C20: for every cohort bucket of the retention calendar whose cohort size is > 0, the
\* cell at lag 0 has value exactly 1.0: the tracks counted at lag 0 are the cohort.
RetentionLagZeroComplete ==
    (qOut.ran /\ qSpec \in RetentionSpecs) =>
        /\ qOut.error = ""
        /\ Len(Points(1)) = Len(qOut.rows[1])
        /\ \A n \in 1..Len(qOut.rows[1]) :
              LET size == cohort_size(retention_visits(Scoped, 30),
                                      qOut.rows[1][n].bucket_start)
              IN  (qOut.rows[1][n].lag_weeks = 0 /\ size > 0) =>
                      /\ Points(1)[n].group = "Week 0"
                      /\ Points(1)[n].value = Some(Float64(1, 1))
                      /\ Points(1)[n].rawCount = Some(Int64(size))

\* A cohort of two tracks, one of which came back the week after.
CohortOfTwoOneReturned ==
    /\ qOut.ran /\ qSpec \in RetentionSpecs /\ qOut.error = ""
    /\ \E n, m \in 1..Len(qOut.rows[1]) :
          /\ qOut.rows[1][n].bucket_start = 0 /\ qOut.rows[1][m].bucket_start = 0
          /\ Points(1)[n].group = "Week 0" /\ Points(1)[n].rawCount = Some(Int64(2))
          /\ Points(1)[n].value = Some(Float64(1, 1))
          /\ Points(1)[m].group = "Week 1" /\ Points(1)[m].value = Some(Float64(1, 2))

\* The cohort bucket of a visitor (site and track): the bucket of their first new visit.
FirstVisitWeek(visits, site_id, track_no) ==
    LET own == {v \in visits : v.site_id = site_id /\ v.track_no = track_no}
    IN  WeekOf((CHOOSE v \in own : \A w \in own : v.visit_ts <= w.visit_ts).visit_ts)

\* C21: a visitor belongs to one cohort, the bucket of their first new visit: every new
\* visit carries that cohort, and a bucket counts members at lag 0 only when some
\* visitor's first new visit lies in it.
CohortIsFirstVisitBucket ==
    (qOut.ran /\ qSpec \in RetentionSpecs /\ qOut.error = "") =>
        LET visits == retention_visits(Scoped, 30)
        IN  /\ \A v \in visits :
                  v.cohort_week = FirstVisitWeek(visits, v.site_id, v.track_no)
            /\ \A n \in 1..Len(qOut.rows[1]) :
                  (qOut.rows[1][n].lag_weeks = 0 /\ Points(1)[n].rawCount[1].num > 0) =>
                      \E v \in visits :
                          FirstVisitWeek(visits, v.site_id, v.track_no)
                              = qOut.rows[1][n].bucket_start

(***************************************************************************)
(* dashboard_catalogue.py: dashboard manifests, pin and remove.            *)
(*                                                                         *)
(* A widget is [id, kind, locked, chartSpecId, inlineSpec]; locked is      *)
(* "true", "false", "null", "absent" or "yes" (a non-boolean), chartSpecId *)
(* is "" when absent, and inlineSpec is "none", the name of a document of  *)
(* InlineDocs, or the id of the catalogue spec it was filled from.  A      *)
(* manifest is [orgId, widgets, kpiBand, placements], placements being the *)
(* function widget id -> [x, y, w, h] of layout.grid.placements.           *)
(***************************************************************************)
_DEFAULT_GRID_COLUMNS == 12

_DEFAULT_GRID_HEIGHT == 8

\* The keys of DASHBOARD_SPEC_CATALOGUE.
CatalogueIds ==
    {"dashboard.kpi.activity_today", "dashboard.kpi.entrances_today",
     "dashboard.kpi.exits_today", "dashboard.kpi.live_occupancy",
     "dashboard.kpi.avg_dwell_today", "dashboard.kpi.freshness_status",
     "dashboard.live_flow"}

TemplateWidget(id, kind, chartSpecId) ==
    [id |-> id, kind |-> kind, locked |-> "true", chartSpecId |-> chartSpecId,
     inlineSpec |-> "none"]

DEFAULT_DASHBOARD_WIDGETS ==
    <<TemplateWidget("kpi-activity-today", "kpi", "dashboard.kpi.activity_today"),
      TemplateWidget("kpi-entrances-today", "kpi", "dashboard.kpi.entrances_today"),
      TemplateWidget("kpi-exits-today", "kpi", "dashboard.kpi.exits_today"),
      TemplateWidget("kpi-live-occupancy", "kpi", "dashboard.kpi.live_occupancy"),
      TemplateWidget("kpi-avg-dwell", "kpi", "dashboard.kpi.avg_dwell_today"),
      TemplateWidget("kpi-freshness", "kpi", "dashboard.kpi.freshness_status"),
      TemplateWidget("live-flow", "chart", "dashboard.live_flow")>>

Slot(x, y, w, h) == [x |-> x, y |-> y, w |-> w, h |-> h]

\* _MANIFEST_TEMPLATES["dashboard-default"] with DEFAULT_LAYOUT
_MANIFEST_TEMPLATES ==
    [orgId |-> "template",
     widgets |-> DEFAULT_DASHBOARD_WIDGETS,
     kpiBand |-> <<"kpi-activity-today", "kpi-entrances-today", "kpi-exits-today",
                   "kpi-live-occupancy", "kpi-avg-dwell", "kpi-freshness">>,
     placements |-> [id \in {"live-flow"} |->
                        Slot(0, 0, _DEFAULT_GRID_COLUMNS, _DEFAULT_GRID_HEIGHT)]]

\* InMemoryManifestRepository._bootstrap: the store after the call.
_bootstrap(st, org_id) ==
    IF st[org_id] # None THEN st
    ELSE [st EXCEPT ![org_id] = Some([_MANIFEST_TEMPLATES EXCEPT !.orgId = org_id])]

\* InMemoryManifestRepository.load: a deep copy of the bootstrapped manifest.
load(st, org_id) == _bootstrap(st, org_id)[org_id][1]

\* InMemoryManifestRepository.save
save(st, org_id, manifest) == [st EXCEPT ![org_id] = Some(manifest)]

\* _clone_for_response: orgId set, inlineSpec filled from the catalogue where missing.
_clone_for_response(manifest, org_id) ==
    [manifest EXCEPT
        !.orgId = org_id,
        !.widgets = [i \in 1..Len(manifest.widgets) |->
                        IF manifest.widgets[i].inlineSpec = "none"
                           /\ manifest.widgets[i].chartSpecId # ""
                        THEN [manifest.widgets[i] EXCEPT
                                 !.inlineSpec = manifest.widgets[i].chartSpecId]
                        ELSE manifest.widgets[i]]]

\* The inline specs a caller may send: a valid document and one the validator rejects.
InlineDocs == [ok |-> Headline, bad |-> JDict(<<>>)]

\* validate_chart_spec of an inline spec; the catalogue's specs are validated on import.
ValidInline(tag) == tag \in CatalogueIds \/ validate_chart_spec(InlineDocs[tag])

\* _validate_widget: the error it raises ("" when none).
_validate_widget(widget) ==
    IF widget.id = "" THEN "ManifestValidationError"
    ELSE IF widget.kind \notin {"kpi", "chart"} THEN "ManifestValidationError"
    ELSE IF widget.locked \notin {"true", "false", "null", "absent"}
    THEN "ManifestValidationError"
    ELSE IF widget.inlineSpec = "none" /\ widget.chartSpecId = ""
    THEN "ManifestValidationError"
    ELSE IF widget.inlineSpec # "none"
    THEN (IF ValidInline(widget.inlineSpec) THEN "" ELSE "ValidationError")
    ELSE IF widget.chartSpecId \notin CatalogueIds THEN "KeyError"
    ELSE ""

\* What _validate_widget leaves in the widget: inlineSpec filled from chartSpecId.
Validated(widget) ==
    IF widget.inlineSpec = "none" THEN [widget EXCEPT !.inlineSpec = widget.chartSpecId]
    ELSE widget

WidgetIds(manifest) == {manifest.widgets[i].id : i \in 1..Len(manifest.widgets)}

WidgetOf(manifest, id) ==
    manifest.widgets[CHOOSE i \in 1..Len(manifest.widgets) : manifest.widgets[i].id = id]

\* _validate_manifest: the error it raises ("" when none).
_validate_manifest(manifest) ==
    LET widgets == manifest.widgets
        placed == DOMAIN manifest.placements
        failing == {i \in 1..Len(widgets) : _validate_widget(widgets[i]) # ""}
    IN  IF failing # {}
        THEN _validate_widget(widgets[CHOOSE i \in failing : \A j \in failing : i <= j])
        ELSE IF \E i, j \in 1..Len(widgets) : i # j /\ widgets[i].id = widgets[j].id
        THEN "ManifestValidationError"
        ELSE IF \E n \in 1..Len(manifest.kpiBand) :
                    \/ manifest.kpiBand[n] \notin WidgetIds(manifest)
                    \/ WidgetOf(manifest, manifest.kpiBand[n]).kind # "kpi"
        THEN "ManifestValidationError"
        ELSE IF \E id \in placed :
                    \/ id \notin WidgetIds(manifest)
                    \/ WidgetOf(manifest, id).kind # "chart"
                    \/ manifest.placements[id].w < 1
                    \/ manifest.placements[id].w > _DEFAULT_GRID_COLUMNS
                    \/ manifest.placements[id].h < 1
        THEN "ManifestValidationError"
        ELSE IF \E i \in 1..Len(widgets) :
                    \/ widgets[i].kind = "chart" /\ widgets[i].id \notin placed
                    \/ widgets[i].kind = "kpi" /\ widgets[i].id \in placed
        THEN "ManifestValidationError"
        ELSE ""

\* _infer_next_grid_slot
_infer_next_grid_slot(placements) ==
    IF DOMAIN placements = {} THEN Slot(0, 0, _DEFAULT_GRID_COLUMNS, _DEFAULT_GRID_HEIGHT)
    ELSE LET bottoms == {placements[id].y + placements[id].h : id \in DOMAIN placements}
         IN  Slot(0, CHOOSE b \in bottoms : \A c \in bottoms : c <= b,
                  _DEFAULT_GRID_COLUMNS, _DEFAULT_GRID_HEIGHT)

\* [wid for wid in band if wid != widget_id]
RECURSIVE Without(_, _)
Without(band, widget_id) ==
    IF band = <<>> THEN <<>>
    ELSE IF Head(band) = widget_id THEN Without(Tail(band), widget_id)
    ELSE <<Head(band)>> \o Without(Tail(band), widget_id)

\* [widget for widget in widgets if widget.get("id") != widget_id]
RECURSIVE WithoutWidget(_, _)
WithoutWidget(widgets, widget_id) ==
    IF widgets = <<>> THEN <<>>
    ELSE IF Head(widgets).id = widget_id THEN WithoutWidget(Tail(widgets), widget_id)
    ELSE <<Head(widgets)>> \o WithoutWidget(Tail(widgets), widget_id)

\* The outcome of a manifest call: the store it leaves, its error, what it returned.
Answer(st, error, returned) == [st |-> st, error |-> error, returned |-> returned]

\* get_dashboard_manifest
get_dashboard_manifest(st, org_id) ==
    Answer(_bootstrap(st, org_id), "", Some(_clone_for_response(load(st, org_id), org_id)))

\* pin_widget_to_manifest, lines 515-550: the manifest with the new widget placed, or
\* the error raised while placing it.
Placed(manifest, widget_copy, grid, position, target_band) ==
    LET widgets == IF position = "start" THEN <<widget_copy>> \o manifest.widgets
                   ELSE Append(manifest.widgets, widget_copy)
        band_target == IF target_band # "" THEN target_band
                       ELSE IF widget_copy.kind = "kpi" THEN "kpiBand" ELSE "grid"
        band == Without(manifest.kpiBand, widget_copy.id)
        placement == IF grid = None THEN _infer_next_grid_slot(manifest.placements)
                     ELSE grid[1]
    IN  IF band_target = "kpiBand"
        THEN IF widget_copy.kind # "kpi"
             THEN [error |-> "ManifestValidationError", manifest |-> manifest]
             ELSE [error |-> "",
                   manifest |-> [manifest EXCEPT
                       !.widgets = widgets,
                       !.kpiBand = IF position = "start" THEN <<widget_copy.id>> \o band
                                   ELSE Append(band, widget_copy.id)]]
        ELSE [error |-> "",
              manifest |-> [manifest EXCEPT
                  !.widgets = widgets,
                  !.placements = [id \in DOMAIN manifest.placements \cup {widget_copy.id} |->
                                     IF id = widget_copy.id THEN placement
                                     ELSE manifest.placements[id]]]]

\* A pin that takes no id as present already.
existing_ids_none(manifest) == {}

\* existing_ids = {existing.get("id") for existing in manifest.get("widgets", [])}
existing_ids(manifest) == WidgetIds(manifest)

\* pin_widget_to_manifest
pin_widget_to_manifest(st, org_id, widget, grid, position, target_band) ==
    LET booted == _bootstrap(st, org_id)
        manifest == load(st, org_id)
        widget_copy == IF widget.locked = "absent" THEN [widget EXCEPT !.locked = "false"]
                       ELSE widget
        placed == Placed(manifest, Validated(widget_copy), grid, position, target_band)
    IN  IF _validate_widget(widget_copy) # ""
        THEN Answer(booted, _validate_widget(widget_copy), None)
        ELSE IF widget_copy.id \in existing_ids(manifest)
        THEN get_dashboard_manifest(booted, org_id)
        ELSE IF placed.error # "" THEN Answer(booted, placed.error, None)
        ELSE IF _validate_manifest(placed.manifest) # ""
        THEN Answer(booted, _validate_manifest(placed.manifest), None)
        ELSE get_dashboard_manifest(save(booted, org_id, placed.manifest), org_id)

\* A removal that takes no widget as locked.
IsLocked_never(widget) == FALSE

\* target_widget.get("locked") as a truth value
IsLocked(widget) == widget.locked = "true"

\* remove_widget_from_manifest
remove_widget_from_manifest(st, org_id, widget_id) ==
    LET booted == _bootstrap(st, org_id)
        manifest == load(st, org_id)
        removed == [manifest EXCEPT
                       !.widgets = WithoutWidget(manifest.widgets, widget_id),
                       !.kpiBand = Without(manifest.kpiBand, widget_id),
                       !.placements = [id \in DOMAIN manifest.placements \ {widget_id} |->
                                          manifest.placements[id]]]
    IN  IF widget_id \notin WidgetIds(manifest)
        THEN get_dashboard_manifest(booted, org_id)
        ELSE IF IsLocked(WidgetOf(manifest, widget_id))
        THEN Answer(booted, "ManifestValidationError", None)
        ELSE IF _validate_manifest(removed) # ""
        THEN Answer(booted, _validate_manifest(removed), None)
        ELSE get_dashboard_manifest(save(booted, org_id, removed), org_id)

\* The organisations whose dashboard is opened.
ManifestOrgs == {"client0"}

Payload(id, kind, locked, chartSpecId, inlineSpec) ==
    [id |-> id, kind |-> kind, locked |-> locked, chartSpecId |-> chartSpecId,
     inlineSpec |-> inlineSpec]

\* The widget payloads callers send: new KPI and chart widgets (unlocked, locked, with
\* an inline spec or a catalogue reference), payloads reusing a template widget's id,
\* and payloads _validate_widget rejects.
Payloads ==
    {Payload("kpi-custom", "kpi", "absent", "", "ok"),
     Payload("kpi-custom", "kpi", "true", "", "ok"),
     Payload("chart-custom", "chart", "absent", "dashboard.live_flow", "none"),
     Payload("chart-custom", "chart", "null", "", "ok"),
     Payload("kpi-freshness", "kpi", "absent", "", "ok"),
     Payload("live-flow", "kpi", "false", "", "ok"),
     Payload("kpi-custom", "table", "absent", "", "ok"),
     Payload("kpi-freshness", "kpi", "yes", "", "ok"),
     Payload("chart-custom", "chart", "absent", "", "bad"),
     Payload("chart-custom", "chart", "absent", "dashboard.unknown", "none"),
     Payload("kpi-custom", "kpi", "absent", "", "none"),
     Payload("", "kpi", "absent", "", "ok")}

\* How a pin is placed: <<position, target_band, widget.layout.grid>>.
Placings ==
    {<<"end", "", None>>, <<"start", "", None>>,
     <<"end", "kpiBand", None>>, <<"end", "grid", None>>,
     <<"end", "", Some(Slot(0, 8, 6, 4))>>,
     <<"end", "", Some(Slot(0, 8, _DEFAULT_GRID_COLUMNS + 1, 4))>>}

RemoveIds == {"kpi-custom", "chart-custom", "kpi-freshness", "live-flow", "missing-widget"}

Called(op, org_id, widget_id, o) ==
    [op |-> op, org_id |-> org_id, widget_id |-> widget_id,
     existed |-> widget_id \in WidgetIds(load(manifests, org_id)),
     error |-> o.error, returned |-> o.returned]

PinWidget(org_id, widget, placing) ==
    /\ \E o \in {pin_widget_to_manifest(manifests, org_id, widget, placing[3],
                                         placing[1], placing[2])} :
          /\ manifests' = o.st
          /\ mRet' = Called("pin", org_id, widget.id, o)
    /\ UNCHANGED <<hashVars, cacheVars, engineVars, concVars, queryVars, paramVars>>

RemoveWidget(org_id, widget_id) ==
    /\ \E o \in {remove_widget_from_manifest(manifests, org_id, widget_id)} :
          /\ manifests' = o.st
          /\ mRet' = Called("remove", org_id, widget_id, o)
    /\ UNCHANGED <<hashVars, cacheVars, engineVars, concVars, queryVars, paramVars>>

GetManifest(org_id) ==
    /\ \E o \in {get_dashboard_manifest(manifests, org_id)} :
          /\ manifests' = o.st
          /\ mRet' = Called("get", org_id, "", o)
    /\ UNCHANGED <<hashVars, cacheVars, engineVars, concVars, queryVars, paramVars>>

\* MANIFEST_REPOSITORY = InMemoryManifestRepository(_MANIFEST_TEMPLATES): an empty store.
ManifestInit ==
    /\ HashIdle /\ CacheIdle /\ EngineIdle /\ ConcIdle /\ QueryIdle /\ ParamIdle
    /\ manifests = [org_id \in ManifestOrgs |-> None]
    /\ mRet = None

ManifestNext ==
    \/ \E org_id \in ManifestOrgs, widget \in Payloads, placing \in Placings :
          PinWidget(org_id, widget, placing)
    \/ \E org_id \in ManifestOrgs, widget_id \in RemoveIds : RemoveWidget(org_id, widget_id)
    \/ \E org_id \in ManifestOrgs : GetManifest(org_id)

SpecManifest == ManifestInit /\ [][ManifestNext]_vars

Occurrences(seq, x) == Cardinality({i \in 1..Len(seq) : seq[i] = x})

IdsOf(manifest) == [i \in 1..Len(manifest.widgets) |-> manifest.widgets[i].id]

\* C22: a pin whose widget id is already in the organisation's manifest leaves the stored
\* manifest as it was and, for a payload _validate_widget accepts, returns the current
\* manifest; in every manifest an id occurs once in widgets and at most once in kpiBand.
PinIsIdempotent ==
    /\ [](\A org_id \in ManifestOrgs :
             LET manifest == load(manifests, org_id)
             IN  /\ \A id \in WidgetIds(manifest) : Occurrences(IdsOf(manifest), id) = 1
                 /\ \A id \in WidgetIds(manifest) : Occurrences(manifest.kpiBand, id) <= 1)
    /\ [][\A org_id \in ManifestOrgs, widget \in Payloads, placing \in Placings :
             (/\ mRet' # None /\ mRet'.op = "pin" /\ mRet'.widget_id = widget.id
              /\ widget.id \in WidgetIds(load(manifests, org_id))
              /\ PinWidget(org_id, widget, placing)) =>
                 /\ load(manifests', org_id) = load(manifests, org_id)
                 /\ _validate_widget(widget) = "" =>
                        /\ mRet'.error = ""
                        /\ mRet'.returned =
                               Some(_clone_for_response(load(manifests, org_id), org_id))]_vars

\* A widget pinned earlier was pinned again and the manifest came back with it once.
RepeatedPinReturnedManifest ==
    /\ mRet # None /\ mRet.op = "pin" /\ mRet.existed /\ mRet.error = ""
    /\ mRet.widget_id = "kpi-custom"
    /\ Occurrences(IdsOf(mRet.returned[1]), "kpi-custom") = 1
    /\ Occurrences(mRet.returned[1].kpiBand, "kpi-custom") = 1

\* C23: removing a locked widget raises ManifestValidationError and leaves the stored
\* manifest unchanged; no pin or remove call takes a locked widget, its kpiBand entry or
\* its grid placement out of the manifest.
LockedWidgetsStay ==
    [][\A org_id \in ManifestOrgs :
          LET before == load(manifests, org_id)
              after == load(manifests', org_id)
          IN  /\ \A i \in 1..Len(before.widgets) :
                    before.widgets[i].locked = "true" =>
                        /\ \E j \in 1..Len(after.widgets) :
                               after.widgets[j] = before.widgets[i]
                        /\ before.widgets[i].kind = "kpi" =>
                               Occurrences(after.kpiBand, before.widgets[i].id) = 1
                        /\ before.widgets[i].kind = "chart" =>
                               /\ before.widgets[i].id \in DOMAIN after.placements
                               /\ after.placements[before.widgets[i].id]
                                      = before.placements[before.widgets[i].id]
              /\ \A widget_id \in RemoveIds :
                    (/\ widget_id \in WidgetIds(before)
                     /\ WidgetOf(before, widget_id).locked = "true"
                     /\ RemoveWidget(org_id, widget_id)) =>
                        /\ mRet'.error = "ManifestValidationError"
                        /\ after = before]_vars

\* The removal of a widget that was pinned locked was refused.
LockedRemovalRefused ==
    /\ mRet # None /\ mRet.op = "remove" /\ mRet.error = "ManifestValidationError"
    /\ mRet.widget_id = "kpi-custom"
    /\ WidgetOf(load(manifests, mRet.org_id), "kpi-custom").locked = "true"
    /\ Occurrences(load(manifests, mRet.org_id).kpiBand, "kpi-custom") = 1

\* C24: a non-empty bucket that no exit seeded has as coverage the part of its full
\* interval [bucket_start, bucket_start + bucket) that lies inside the window from..to:
\* below 1 for a bucket that starts before `from` or is cut short by `to`, 1 otherwise.
CoverageIsWindowShare ==
    TimeSeriesResult =>
        LET from == ParseTimestamp(qOut.query[1].start_ts)
            to == ParseTimestamp(qOut.query[1].end_ts)
            step == _BUCKET_SECONDS(qOut.query[1].bucket)
        IN  \A i \in 1..Len(qOut.result[1].series) :
                \A n \in 1..Len(Points(i)) :
                    LET b == BucketOf(Points(i)[n])
                        inside == Min(b.bucket_start + step, to) - Max(b.bucket_start, from)
                    IN  (/\ Points(i)[n].rawCount[1].num > 0
                         /\ \A e \in InBucket(Scoped, b) : running_total(Scoped, e) >= 0) =>
                            /\ Points(i)[n].coverage = Some(Float64(inside, step))
                            /\ (b.bucket_start < from \/ b.bucket_start + step > to) =>
                                   ~Leq(Float64(1, 1), Points(i)[n].coverage[1])

\* The rows of scoped a count measure reads: all of them, or those of its eventTypes.
CountedBy(read) ==
    {e \in Scoped :
        Truthy(read.eventTypes) =>
            \E k \in 1..Len(read.eventTypes[1].kids) :
                e.event_type = read.eventTypes[1].kids[k][2].atom}

\* C28: the values of a count series add up to the number of events that scoped selects
\* for the measure (timestamp from `from` to `to`, both ends included), so every such
\* event lies in exactly one calendar bucket.
NoScopedEventLost ==
    TimeSeriesResult =>
        \A i \in 1..Len(qOut.result[1].series) :
            \A k \in 1..Len(qOut.query[1].reads) :
                (/\ qOut.query[1].reads[k].id = qOut.result[1].series[i].id
                 /\ qOut.query[1].reads[k].aggregation = "count"
                 /\ \A j \in 1..Len(qOut.query[1].reads) :
                        j # k => qOut.query[1].reads[j].id # qOut.query[1].reads[k].id) =>
                    /\ SumSeq([n \in 1..Len(Points(i)) |-> Points(i)[n].y[1].num])
                           = Cardinality(CountedBy(qOut.query[1].reads[k]))
                    /\ \A e \in CountedBy(qOut.query[1].reads[k]) :
                           Cardinality({b \in _render_calendar(qOut.query[1]) :
                                           e \in InBucket(Scoped, b)}) = 1

(***************************************************************************)
(* compiler.py: the parameters compile binds.  Names are sequences of      *)
(* one-character strings, so that prefixes and substitutions are computed; *)
(* params is the dict as a sequence of [name, value] in insertion order.   *)
(***************************************************************************)
\* The characters of the strings that take part in parameter names.
Chars(s) ==
    CASE s = "cam" -> <<"c", "a", "m">>
      [] s = "cam_id" -> <<"c", "a", "m", "_", "i", "d">>
      [] s = "cam.id" -> <<"c", "a", "m", ".", "i", "d">>
      [] s = "cam_0" -> <<"c", "a", "m", "_", "0">>
      [] s = "start_ts" -> <<"s", "t", "a", "r", "t", "_", "t", "s">>
      [] s = "end_ts" -> <<"e", "n", "d", "_", "t", "s">>
      [] s = "activity" -> <<"a", "c", "t", "i", "v", "i", "t", "y">>
      [] s = "_lower" -> <<"_", "l", "o", "w", "e", "r">>
      [] s = "_upper" -> <<"_", "u", "p", "p", "e", "r">>
      [] s = "_event_types" -> <<"_", "e", "v", "e", "n", "t", "_", "t", "y", "p", "e", "s">>

\* The characters the pattern [^0-9A-Za-z_] leaves alone.
WordChars ==
    {"0", "1", "2", "3", "4", "5", "6", "7", "8", "9", "_",
     "a", "b", "c", "d", "e", "f", "g", "h", "i", "j", "k", "l", "m",
     "n", "o", "p", "q", "r", "s", "t", "u", "v", "w", "x", "y", "z",
     "A", "B", "C", "D", "E", "F", "G", "H", "I", "J", "K", "L", "M",
     "N", "O", "P", "Q", "R", "S", "T", "U", "V", "W", "X", "Y", "Z"}

\* re.sub(r"[^0-9A-Za-z_]", "_", field)
param_base(field) ==
    [i \in 1..Len(Chars(field)) |->
        IF Chars(field)[i] \in WordChars THEN Chars(field)[i] ELSE "_"]

\* str(n) of a natural number.
RECURSIVE Digits(_)
Digits(n) ==
    IF n < 10 THEN <<ToString(n)>> ELSE Digits(n \div 10) \o <<ToString(n % 10)>>

\* key.startswith(prefix)
startswith(key, prefix) ==
    Len(prefix) <= Len(key) /\ SubSeq(key, 1, Len(prefix)) = prefix

\* An index that counts only the keys made of the base and a number.
param_index_plain(params, base) ==
    Cardinality({i \in 1..Len(params) :
                    \E n \in 0..Len(params) : params[i].name = base \o <<"_">> \o Digits(n)})

\* index = sum(1 for key in params if key.startswith(param_base))
param_index(params, base) ==
    Cardinality({i \in 1..Len(params) : startswith(params[i].name, base)})

\* params[name] = value
SetParam(params, name, value) ==
    IF \E i \in 1..Len(params) : params[i].name = name
    THEN [i \in 1..Len(params) |->
             IF params[i].name = name THEN [name |-> name, value |-> value] ELSE params[i]]
    ELSE Append(params, [name |-> name, value |-> value])

\* What compiling filters has come to: the error raised ("" when none), params, and per
\* leaf condition compiled so far the condition and the placeholders its clause names.
Compiling(error, params, leaves) == [error |-> error, params |-> params, leaves |-> leaves]

\* SpecCompiler._compile_condition
_compile_condition(condition, so) ==
    LET base == param_base(Get(condition, "field")[1].atom)
        operator == Get(condition, "op")[1].atom
        value == Get(condition, "value")
        param_name == base \o <<"_">> \o Digits(param_index(so.params, base))
    IN  IF operator = "between"
        THEN IF IsList(value) /\ Len(value[1].kids) = 2
             THEN Compiling("",
                      SetParam(SetParam(so.params, param_name \o Chars("_lower"),
                                        Some(value[1].kids[1][2])),
                               param_name \o Chars("_upper"), Some(value[1].kids[2][2])),
                      Append(so.leaves,
                             [condition |-> condition,
                              names |-> <<param_name \o Chars("_lower"),
                                          param_name \o Chars("_upper")>>]))
             ELSE Compiling("ValidationError", so.params, so.leaves)
        ELSE Compiling("", SetParam(so.params, param_name, value),
                       Append(so.leaves, [condition |-> condition, names |-> <<param_name>>]))

\* SpecCompiler._compile_group over the conditions from position i on.
RECURSIVE _compile_group(_, _, _)
_compile_group(group, i, so) ==
    LET conditions == Get(group, "conditions")[1].kids
    IN  IF so.error # "" \/ i > Len(conditions) THEN so
        ELSE _compile_group(group, i + 1,
                 IF HasKey(conditions[i][2], "logic")
                 THEN _compile_group(conditions[i][2], 1, so)
                 ELSE _compile_condition(conditions[i][2], so))

\* SpecCompiler._build_filters over the groups from position i on.
RECURSIVE _build_filters(_, _, _)
_build_filters(groups, i, so) ==
    IF so.error # "" \/ i > Len(groups) THEN so
    ELSE _build_filters(groups, i + 1, _compile_group(groups[i], 1, so))

\* _activity_counts_cte, lines 605-610: the event-types parameter of a count measure.
RECURSIVE MeasureParams(_, _, _)
MeasureParams(reads, i, so) ==
    IF i > Len(reads) THEN so
    ELSE MeasureParams(reads, i + 1,
             IF reads[i].aggregation \in {"count", "activity_rate"}
                /\ Truthy(reads[i].eventTypes)
             THEN Compiling("",
                      SetParam(so.params, Chars(reads[i].id) \o Chars("_event_types"),
                               reads[i].eventTypes),
                      Append(so.leaves,
                             [condition |-> JStr(reads[i].id),
                              names |-> <<Chars(reads[i].id) \o Chars("_event_types")>>]))
             ELSE so)

\* SpecCompiler.compile: CompiledQuery.params and the placeholders of the SQL, or the error.
CompiledParams(spec) ==
    LET compiled == compile(spec, <<"proj", "ds", "client0">>)
        window == Get(spec, "timeWindow")[1]
        filtered == _build_filters(FilterGroups(spec), 1,
                        Compiling("", <<[name |-> Chars("start_ts"), value |-> Get(window, "from")],
                                        [name |-> Chars("end_ts"), value |-> Get(window, "to")]>>,
                                  <<>>))
    IN  IF compiled.error # "" THEN Compiling(compiled.error, <<>>, <<>>)
        ELSE MeasureParams(compiled.query[1].reads, 1, filtered)

\* BigQueryClient._build_query_parameters: the names it binds (None values are skipped).
_build_query_parameters(params) ==
    {params[i].name : i \in {j \in 1..Len(params) : params[j].value # None}}

(***************************************************************************)
(* SpecParams: filters are built up condition by condition and compiled.  *)
(***************************************************************************)
\* A condition that has no "value" member.
Valueless(field, op) == JDict(<< <<"field", JStr(field)>>, <<"op", JStr(op)>> >>)

\* The conditions the filters are built from: repeated fields, fields whose sanitised names
\* coincide or are prefixes of one another or of a parameter name, the name of a time
\* parameter as a field, ranges, a condition without a value, a range without its pair.
ParamConditions ==
    {Condition("cam", "equals", JStr("a")),
     Condition("cam", "between", JList(<<JNum("1"), JNum("2")>>)),
     Valueless("cam", "equals"),
     Condition("cam", "between", JNum("3")),
     Condition("cam_id", "equals", JStr("b")),
     Condition("cam_id", "between", JList(<<JNum("4"), JNum("5")>>)),
     Condition("cam.id", "in", JList(<<JStr("c")>>)),
     Condition("cam_0", "equals", JStr("d")),
     Condition("cam_0", "between", JList(<<JNum("6"), JNum("7")>>)),
     Condition("start_ts", "equals", JStr("e"))}

MaxConditions == 3

\* A count measure restricted to event types.
TypedMeasure(id, types) ==
    JDict(<< <<"id", JStr(id)>>, <<"aggregation", JStr("count")>>,
             <<"eventTypes", JList(types)>> >>)

ParamSpec(groups) ==
    ChartSpec("composed_time", <<TypedMeasure("activity", <<JNum("1")>>)>>, "HOUR", groups)

\* The number of leaf conditions of a group.
RECURSIVE LeafCount(_)
LeafCount(group) ==
    LET conditions == Items(Get(group, "conditions")[1])
        RECURSIVE upto(_)
        upto(n) == IF n = 0 THEN 0
                   ELSE upto(n - 1) + (IF HasKey(conditions[n], "logic")
                                       THEN LeafCount(conditions[n]) ELSE 1)
    IN  upto(Len(conditions))

RECURSIVE TotalLeaves(_)
TotalLeaves(groups) ==
    IF groups = <<>> THEN 0 ELSE LeafCount(groups[1]) + TotalLeaves(Tail(groups))

\* group["conditions"].append(condition)
WithCondition(group, condition) ==
    FilterGroup(Get(group, "logic")[1].atom,
                Append(Items(Get(group, "conditions")[1]), condition))

NotCompiled == None

ParamInit ==
    /\ pFilters = Some(<<>>)
    /\ pOut = NotCompiled
    /\ HashIdle /\ CacheIdle /\ EngineIdle /\ ConcIdle /\ QueryIdle /\ ManifestIdle

\* A new top-level group holding one condition.
AddGroup(condition) ==
    /\ pFilters # None
    /\ TotalLeaves(pFilters[1]) < MaxConditions
    /\ pFilters' = Some(Append(pFilters[1], FilterGroup("AND", <<condition>>)))
    /\ pOut' = NotCompiled
    /\ UNCHANGED <<hashVars, cacheVars, engineVars, concVars, queryVars, manifestVars>>

\* One more condition in the last top-level group.
AddCondition(condition) ==
    /\ pFilters # None
    /\ pFilters[1] # <<>>
    /\ TotalLeaves(pFilters[1]) < MaxConditions
    /\ pFilters' = Some([pFilters[1] EXCEPT ![Len(pFilters[1])] = WithCondition(@, condition)])
    /\ pOut' = NotCompiled
    /\ UNCHANGED <<hashVars, cacheVars, engineVars, concVars, queryVars, manifestVars>>

\* A nested OR group holding one condition, inside the last top-level group.
AddNestedGroup(condition) ==
    /\ pFilters # None
    /\ pFilters[1] # <<>>
    /\ TotalLeaves(pFilters[1]) < MaxConditions
    /\ pFilters' = Some([pFilters[1] EXCEPT ![Len(pFilters[1])] =
                            WithCondition(@, FilterGroup("OR", <<condition>>))])
    /\ pOut' = NotCompiled
    /\ UNCHANGED <<hashVars, cacheVars, engineVars, concVars, queryVars, manifestVars>>

\* compile(spec) followed by the executor's binding of the parameters.
CompileFilters ==
    /\ pFilters # None
    /\ pOut = NotCompiled
    /\ \E o \in {CompiledParams(ParamSpec(pFilters[1]))} :
          pOut' = Some([error |-> o.error, params |-> o.params, leaves |-> o.leaves,
                        bound |-> _build_query_parameters(o.params)])
    /\ UNCHANGED <<pFilters, hashVars, cacheVars, engineVars, concVars, queryVars, manifestVars>>

ParamNext ==
    \/ \E condition \in ParamConditions : AddGroup(condition)
    \/ \E condition \in ParamConditions : AddCondition(condition)
    \/ \E condition \in ParamConditions : AddNestedGroup(condition)
    \/ CompileFilters

SpecParams == ParamInit /\ [][ParamNext]_vars

(***************************************************************************)
(* The parameters of compiled filters.                                     *)
(***************************************************************************)
\* The value(s) a leaf condition hands to its parameters, in the order of its names.
BoundValues(condition) ==
    IF Get(condition, "op")[1].atom = "between"
    THEN <<Some(Get(condition, "value")[1].kids[1][2]), Some(Get(condition, "value")[1].kids[2][2])>>
    ELSE <<Get(condition, "value")>>

\* The leaves of the compiled filters (the event-types entries of measures left out).
FilterLeaves(o) == SelectSeq(o.leaves, LAMBDA l : l.condition.kind = "dict")

\* params[name], or None when the key is missing.
ParamValue(params, name) ==
    IF \E i \in 1..Len(params) : params[i].name = name
    THEN Some(params[CHOOSE i \in 1..Len(params) : params[i].name = name].value)
    ELSE None

\* name is {base}_{index}, {base}_{index}_lower or {base}_{index}_upper.
HasParamForm(name, base, op, k, most) ==
    \E n \in 0..most :
        name = base \o <<"_">> \o Digits(n)
                 \o (IF op = "between" THEN Chars(<<"_lower", "_upper">>[k]) ELSE <<>>)

\* C25: when filters compile, every condition is bound under names of the form
\* {sanitisedField}_{index} (with _lower / _upper for between); no two conditions share a
\* name, none takes start_ts or end_ts, the time parameters keep the window's bounds and
\* every condition's parameters still hold that condition's own value(s).
ParamNamesNeverCollide ==
    (pOut # None /\ pOut[1].error = "") =>
        LET o == pOut[1]
            L == FilterLeaves(o)
            window == Get(ParamSpec(pFilters[1]), "timeWindow")[1]
        IN  /\ \A i \in 1..Len(L) : \A k \in 1..Len(L[i].names) :
                  /\ HasParamForm(L[i].names[k], param_base(Get(L[i].condition, "field")[1].atom),
                                  Get(L[i].condition, "op")[1].atom, k, Len(o.params))
                  /\ L[i].names[k] \notin {Chars("start_ts"), Chars("end_ts")}
                  /\ ParamValue(o.params, L[i].names[k]) = Some(BoundValues(L[i].condition)[k])
                  /\ \A j \in 1..Len(L) : \A m \in 1..Len(L[j].names) :
                        L[i].names[k] = L[j].names[m] => (i = j /\ k = m)
            /\ ParamValue(o.params, Chars("start_ts")) = Some(Get(window, "from"))
            /\ ParamValue(o.params, Chars("end_ts")) = Some(Get(window, "to"))

\* Filters compiled in which one field occurs twice, one of them as a range, next to a field
\* whose sanitised name extends it.
RepeatedAndPrefixFieldsCompiled ==
    /\ pOut # None /\ pOut[1].error = ""
    /\ LET L == FilterLeaves(pOut[1])
       IN  /\ Len(L) = 3
           /\ \E i, j, k \in 1..3 :
                 /\ i < j
                 /\ Get(L[i].condition, "field")[1].atom = "cam"
                 /\ Get(L[j].condition, "field")[1].atom = "cam"
                 /\ Get(L[i].condition, "op")[1].atom = "between"
                 /\ Get(L[k].condition, "field")[1].atom \in {"cam_id", "cam.id", "cam_0"}
                 /\ k < j

\* C29: when a spec the validator accepts compiles, every placeholder of the SQL is a
\* parameter the executor binds with a value.
EveryPlaceholderBound ==
    (pOut # None /\ pOut[1].error = "") =>
        /\ {Chars("start_ts"), Chars("end_ts")} \subseteq pOut[1].bound
        /\ \A i \in 1..Len(pOut[1].leaves) : \A k \in 1..Len(pOut[1].leaves[i].names) :
              pOut[1].leaves[i].names[k] \in pOut[1].bound

(***************************************************************************)
(* Writes with ttl = 0.                                                    *)
(***************************************************************************)
\* C30: a set(k, v2, ttl=0) on a key that holds an unexpired entry v1 leaves that entry
\* alone: a get(k) right after it still returns v1.
ZeroTtlSetLeavesLiveEntry ==
    [][\A k \in CKeys, v2 \in CValues :
          (/\ k \in DOMAIN store
           /\ ~expired(store[k], now)
           /\ CSet(k, v2, Some(0)))
          => SpecCache_get(store', k, now').value = Some(store[k].value)]_vars

(***************************************************************************)
(* execute with bypass_cache true.                                         *)
(***************************************************************************)
\* The step is an execute call with bypass_cache true that returned.
BypassReturned ==
    /\ ncalls' = ncalls + 1
    /\ last'.bypass_cache
    /\ last'.error = ""

\* The call ran the warehouse once on the data as it is now, returned what that run
\* yielded and stored it under its key in place of whatever the key held.
RanFreshAndStored ==
    /\ ~last'.hit
    /\ last'.execs = 1 /\ jobs' = jobs + 1
    /\ last'.result[1].rows.data = ver
    /\ last'.result[1].rows.query.table = TableRouter_resolve(last'.org).table[1]
    /\ last'.key[1] \in DOMAIN store'
    /\ store'[last'.key[1]].value = last'.result[1]
    /\ store'[last'.key[1]].set_at = now
    /\ \A k \in (DOMAIN store') \ {last'.key[1]} : k \in DOMAIN store /\ store'[k] = store[k]

\* The step is an execute call without bypass for the spec and organisation of the call
\* before it, which bypassed the cache and returned; no clear() in between.
FollowsBypass ==
    /\ ncalls' = ncalls + 1
    /\ last.bypass_cache /\ last.error = ""
    /\ ~last'.bypass_cache
    /\ last'.org = last.org /\ last'.spec = last.spec
    /\ ~last.cleared
    /\ last'.raised_by_cache = ""

\* C26 as stated: a returning execute with bypass_cache true runs the warehouse once,
\* returns the fresh result and stores it, and an execute without bypass that follows it at
\* once returns that result without running the warehouse.
BypassThenServedFromCache ==
    [][/\ BypassReturned => RanFreshAndStored
       /\ (FollowsBypass /\ now = last.at) => ServedFromCache]_vars

\* C26: no execute with bypass_cache true is served from the cache; one that returns ran the
\* warehouse exactly once, returned the fresh result and stored it in place of the previous
\* entry.  An execute without bypass that follows it returns that result without running
\* the warehouse while the effective TTL of the bypassing call is positive and has not
\* elapsed; with an effective TTL of 0 it is not served from the cache.
BypassNeverServesFromCache ==
    [][/\ (ncalls' = ncalls + 1 /\ last'.bypass_cache) => ~last'.hit
       /\ BypassReturned => RanFreshAndStored
       /\ (FollowsBypass /\ now < last.live_until) => ServedFromCache
       /\ (FollowsBypass /\ last.live_until = last.at) => ~last'.hit]_vars

\* A bypassing call found a live entry under its key, computed on older data, and replaced
\* it with the result of its own warehouse run.
BypassReplacedLiveEntry ==
    /\ ncalls = 2 /\ jobs = 2 /\ ver = 1
    /\ last.bypass_cache /\ last.had_live /\ last.error = ""
    /\ last.result[1].rows.data = 1
    /\ store[last.key[1]].value = last.result[1]

(***************************************************************************)
(* Tenants and the cache.  execute holds table_name and cache_key in       *)
(* locals and touches the shared cache only through get and set, each      *)
(* under the backend lock; calls for different organisations follow one    *)
(* another here in every order.                                            *)
(***************************************************************************)
\* The table the query of a ChartResult ran against.
TableOf(result) == result.rows.query.table

====
